---- MODULE Spec2Model ----
(***************************************************************************)
(* A model of organize_recognized.py: the placement-and-deduplication      *)
(* engine of music-file-organizer.                                         *)
(*                                                                         *)
(* Text is modelled as a sequence of one-character strings, so that        *)
(* sanitization, placeholder substitution, lower-casing and the os.path    *)
(* functions are computed character by character, as the code does.        *)
(* Paths are POSIX paths; source paths and the destination root are        *)
(* absolute and normalized, so os.path.abspath leaves them unchanged.      *)
(***************************************************************************)
EXTENDS Integers, Sequences, FiniteSets, TLC

(***************************************************************************)
(* Characters                                                              *)
(***************************************************************************)

\* Python's None for an absent metadata field: no text is equal to it.
None == <<"None">>

UpperChars == <<"A","B","C","D","E","F","G","H","I","J","K","L","M",
                "N","O","P","Q","R","S","T","U","V","W","X","Y","Z">>
LowerChars == <<"a","b","c","d","e","f","g","h","i","j","k","l","m",
                "n","o","p","q","r","s","t","u","v","w","x","y","z">>

\* The control characters of the model's alphabet with ord(ch) < 32.
ControlChars == {"\t", "\n", "\r"}

\* The characters line 64 names: '<>:"|?*'.
ReservedChars == {"<", ">", ":", "\"", "|", "?", "*"}

\* The characters of the regular expression class [\s\-_.(),;:] (lines 175, 188).
\* Control characters never reach it: sanitize_component replaced them.
TrimChars == {" ", "-", "_", ".", "(", ")", ",", ";", ":"}

\* The printable ASCII characters in code order, from 32 (space) to 126; the
\* grave accent (96), which is no character of the model, keeps its place.
Printable ==
    <<" ","!","\"","#","$","%","&","'","(",")","*","+",",","-",".","/",
      "0","1","2","3","4","5","6","7","8","9",":",";","<","=",">","?",
      "@","A","B","C","D","E","F","G","H","I","J","K","L","M","N","O",
      "P","Q","R","S","T","U","V","W","X","Y","Z","[","\\","]","^","_",
      "(grave)","a","b","c","d","e","f","g","h","i","j","k","l","m","n","o",
      "p","q","r","s","t","u","v","w","x","y","z","{","|","}","~">>

\* The character DEL (code 127), a control character that is no white space
Delete == "(del)"

\* The code of every character of the alphabet
CharCodes ==
    [ch \in ControlChars \cup {Delete} \cup {Printable[i] : i \in 1..Len(Printable)} |->
        CASE ch = "\t" -> 9
          [] ch = "\n" -> 10
          [] ch = "\r" -> 13
          [] ch = Delete -> 127
          [] OTHER -> 31 + (CHOOSE i \in 1..Len(Printable) : Printable[i] = ch)]

\* ord(ch)
Ord(ch) == CharCodes[ch]

\* The lower-case letter of every upper-case letter
LowerOf == [ch \in {UpperChars[i] : i \in 1..26} |->
               LowerChars[CHOOSE i \in 1..26 : UpperChars[i] = ch]]

\* str.lower() on one character
LowerChar(ch) == IF ch \in DOMAIN LowerOf THEN LowerOf[ch] ELSE ch

(***************************************************************************)
(* Text                                                                    *)
(***************************************************************************)

\* str.lower()
Lower(s) == [i \in 1..Len(s) |-> LowerChar(s[i])]

\* str.startswith
StartsWith(s, p) == Len(s) >= Len(p) /\ SubSeq(s, 1, Len(p)) = p

\* s[n:]
Drop(s, n) == SubSeq(s, n + 1, Len(s))

\* str.strip(chars), str.lstrip, str.rstrip
RECURSIVE LStrip(_, _)
LStrip(s, chars) ==
    IF s # <<>> /\ s[1] \in chars THEN LStrip(Tail(s), chars) ELSE s

RECURSIVE RStrip(_, _)
RStrip(s, chars) ==
    IF s # <<>> /\ s[Len(s)] \in chars
    THEN RStrip(SubSeq(s, 1, Len(s) - 1), chars)
    ELSE s

Strip(s, chars) == RStrip(LStrip(s, chars), chars)

\* str.replace(old, new): every non-overlapping occurrence, left to right
RECURSIVE Replace(_, _, _)
Replace(s, old, new) ==
    IF s = <<>> THEN <<>>
    ELSE IF StartsWith(s, old)
         THEN new \o Replace(Drop(s, Len(old)), old, new)
         ELSE <<s[1]>> \o Replace(Tail(s), old, new)

\* str.split(sep) for a one-character separator: the list of segments
RECURSIVE SplitAcc(_, _, _)
SplitAcc(s, sep, cur) ==
    IF s = <<>> THEN <<cur>>
    ELSE IF s[1] = sep
         THEN <<cur>> \o SplitAcc(Tail(s), sep, <<>>)
         ELSE SplitAcc(Tail(s), sep, Append(cur, s[1]))

Split(s, sep) == SplitAcc(s, sep, <<>>)

\* re.sub(r"\s+", " ", s) and re.sub(r"\s{2,}", " ", s): both leave one space
\* for every run of spaces
RECURSIVE CollapseSpaces(_)
CollapseSpaces(s) ==
    IF Len(s) < 2 THEN s
    ELSE IF s[1] = " " /\ s[2] = " "
         THEN CollapseSpaces(Tail(s))
         ELSE <<s[1]>> \o CollapseSpaces(Tail(s))

\* The order Python gives strings: by code point, a prefix first
RECURSIVE StrLess(_, _)
StrLess(a, b) ==
    IF b = <<>> THEN FALSE
    ELSE IF a = <<>> THEN TRUE
    ELSE IF a[1] = b[1] THEN StrLess(Tail(a), Tail(b))
    ELSE Ord(a[1]) < Ord(b[1])

\* str(n) for a natural number
RECURSIVE NatToStr(_)
NatToStr(n) ==
    IF n < 10 THEN <<Printable[17 + n]>>
    ELSE NatToStr(n \div 10) \o <<Printable[17 + (n % 10)]>>

(***************************************************************************)
(* sanitize_component, is_unknown_text                                     *)
(***************************************************************************)

Unknown == <<"U","n","k","n","o","w","n">>

\* Lines 60-68: one character of the per-character replacement, after the
\* separators were replaced on line 58.
SanitizeChar(ch) ==
    IF ch \in {"/", "\\"} THEN "-"
    ELSE IF Ord(ch) < 32 \/ ch \in ReservedChars THEN "-"
    ELSE ch

\* sanitize_component without line 73: dots at the ends are kept
sanitize_component_keeps_dots(s) ==
    LET s0 == IF s = None THEN <<>> ELSE s
        s1 == [i \in 1..Len(s0) |-> SanitizeChar(s0[i])]
        s2 == Strip(CollapseSpaces(s1), {" "})
    IN  IF s2 = <<>> THEN Unknown ELSE s2

\* Unicode normalization (line 55) leaves the model's ASCII alphabet unchanged.
sanitize_component(s) ==
    LET s0 == IF s = None THEN <<>> ELSE s
        s1 == [i \in 1..Len(s0) |-> SanitizeChar(s0[i])]
        s2 == Strip(CollapseSpaces(s1), {" "})
        s3 == Strip(s2, {" ", "."})
    IN  IF s3 = <<>> THEN Unknown ELSE s3

is_unknown_text(text) ==
    IF text = None THEN TRUE
    ELSE LET t == Lower(Strip(text, {" ", "\t", "\n", "\r"}))
         IN  t = Lower(Unknown) \/ StartsWith(t, Lower(Unknown) \o <<" ">>)

(***************************************************************************)
(* os.path (posixpath)                                                     *)
(***************************************************************************)

\* str.rfind(ch) + 1: the 1-based index of the last ch in s, 0 when absent
RFind(s, ch) ==
    LET hits == {i \in 1..Len(s) : s[i] = ch}
    IN  IF hits = {} THEN 0 ELSE CHOOSE i \in hits : \A j \in hits : j <= i

\* os.path.basename
basename(p) == Drop(p, RFind(p, "/"))

\* os.path.dirname
dirname(p) ==
    LET head == SubSeq(p, 1, RFind(p, "/"))
    IN  IF head # <<>> /\ \E i \in 1..Len(head) : head[i] # "/"
        THEN RStrip(head, {"/"})
        ELSE head

\* os.path.splitext: <<root, ext>>; the extension starts at the last dot of the
\* last component, unless only dots precede it there
splitext(p) ==
    LET sep == RFind(p, "/")
        dot == RFind(p, ".")
    IN  IF dot > sep /\ \E j \in (sep + 1)..(dot - 1) : p[j] # "."
        THEN <<SubSeq(p, 1, dot - 1), Drop(p, dot - 1)>>
        ELSE <<p, <<>>>>

\* os.path.join(a, b)
join(a, b) ==
    IF StartsWith(b, <<"/">>) THEN b
    ELSE IF a = <<>> \/ a[Len(a)] = "/" THEN a \o b
    ELSE a \o <<"/">> \o b

\* "/".join(parts)
RECURSIVE JoinParts(_)
JoinParts(parts) ==
    IF parts = <<>> THEN <<>>
    ELSE IF Len(parts) = 1 THEN parts[1]
    ELSE parts[1] \o <<"/">> \o JoinParts(Tail(parts))

\* The components of a path that os.path.normpath keeps: empty and "."
\* components go, ".." removes the component before it
RECURSIVE NormParts(_, _)
NormParts(parts, acc) ==
    IF parts = <<>> THEN acc
    ELSE IF parts[1] \in {<<>>, <<".">>} THEN NormParts(Tail(parts), acc)
    ELSE IF parts[1] = <<".", ".">>
         THEN NormParts(Tail(parts),
                        IF acc = <<>> THEN acc ELSE SubSeq(acc, 1, Len(acc) - 1))
    ELSE NormParts(Tail(parts), Append(acc, parts[1]))

\* os.path.abspath of an absolute path (the paths of the model are absolute)
abspath(p) == <<"/">> \o JoinParts(NormParts(Split(p, "/"), <<>>))

\* The length of the common prefix of two lists
RECURSIVE CommonLen(_, _)
CommonLen(a, b) ==
    IF a = <<>> \/ b = <<>> \/ a[1] # b[1] THEN 0
    ELSE 1 + CommonLen(Tail(a), Tail(b))

\* os.path.relpath(path, start)
relpath(path, start) ==
    LET start_list == NormParts(Split(start, "/"), <<>>)
        path_list == NormParts(Split(path, "/"), <<>>)
        i == CommonLen(start_list, path_list)
        ups == [k \in 1..(Len(start_list) - i) |-> <<".", ".">>]
        rel_list == ups \o Drop(path_list, i)
    IN  IF rel_list = <<>> THEN <<".">> ELSE JoinParts(rel_list)

(***************************************************************************)
(* add_suffix_to_filename, build_dest_rel_base                             *)
(***************************************************************************)

add_suffix_to_filename(path, n) ==
    IF n <= 1 THEN path
    ELSE LET d == dirname(path)
             se == splitext(basename(path))
         IN  join(d, se[1] \o <<"_">> \o NatToStr(n) \o se[2])

\* The placeholders, in the order the replacements dict lists them (348-361)
Placeholders == <<"A", "L", "S", "Y", "G", "B", "I", "E", "e", "a", "T", "U">>

\* Lines 155-159: the values of unknown placeholders are blanked
BlankUnknowns(replacements, keep_unknowns) ==
    IF keep_unknowns THEN replacements
    ELSE [k \in DOMAIN replacements |->
            IF is_unknown_text(replacements[k]) THEN <<>> ELSE replacements[k]]

\* Lines 161-163: str.replace of each placeholder in turn, over the whole text
RECURSIVE Substitute(_, _, _)
Substitute(sub, replacements, i) ==
    IF i > Len(Placeholders) THEN sub
    ELSE Substitute(Replace(sub, <<"%", Placeholders[i]>>,
                            replacements[Placeholders[i]]),
                    replacements, i + 1)

\* Lines 175-176 (and 188): trim the punctuation a removed value leaves
TrimDangling(comp) == Strip(CollapseSpaces(Strip(comp, TrimChars)), {" "})

\* Lines 167-178: the components that survive
RECURSIVE SafeParts(_, _)
SafeParts(parts, keep_unknowns) ==
    IF parts = <<>> THEN <<>>
    ELSE LET comp == sanitize_component(parts[1])
             rest == SafeParts(Tail(parts), keep_unknowns)
         IN  IF ~keep_unknowns /\ is_unknown_text(comp) THEN rest
             ELSE LET c == IF keep_unknowns THEN comp ELSE TrimDangling(comp)
                  IN  IF c # <<>> THEN <<c>> \o rest ELSE rest

\* Lines 180-193 without the loop of lines 183-189: the fallback has no core
CoreParts_none(replacements, keep_unknowns, keys) == <<>>

\* Lines 180-193: the fallback when no component survives
RECURSIVE CoreParts(_, _, _)
CoreParts(replacements, keep_unknowns, keys) ==
    IF keys = <<>> THEN <<>>
    ELSE LET v0 == sanitize_component(replacements[keys[1]])
             v1 == IF ~keep_unknowns /\ is_unknown_text(v0) THEN <<>> ELSE v0
             v  == IF keep_unknowns THEN v1
                   ELSE Strip(Strip(v1, TrimChars), {" "})
             rest == CoreParts(replacements, keep_unknowns, Tail(keys))
         IN  IF v # <<>> THEN <<v>> \o rest ELSE rest

build_dest_rel_base(replacements0, ext, pattern, keep_unknowns) ==
    LET replacements == BlankUnknowns(replacements0, keep_unknowns)
        sub == Substitute(pattern, replacements, 1)
        parts == SelectSeq(Split(sub, "/"),
                           LAMBDA p : p \notin {<<>>, <<".">>, <<".", ".">>})
        safe == SafeParts(parts, keep_unknowns)
        core == CoreParts(replacements, keep_unknowns, <<"A", "L", "S">>)
        safe_parts == IF safe # <<>> THEN safe
                      ELSE IF core # <<>> THEN core ELSE <<Unknown>>
    IN  JoinParts(safe_parts) \o ext

(***************************************************************************)
(* The inputs of a run                                                     *)
(***************************************************************************)

\* The mapping has MaxEntries entries (an entry whose source is missing is
\* left out of planning, so shorter mappings are covered).
MaxEntries == 3

\* At most MaxPre files exist under the destination root before the run,
\* besides the sources that sit there.
MaxPre == 2

\* The report's generated_at is one of MaxClock instants.
MaxClock == 2

\* The organizer is run at most MaxRuns times in a row.
MaxRuns == 2

\* The texts given to sanitize_component have at most MaxLen characters.
MaxLen == 3

\* batch_recognize finds at most MaxFiles audio files.
MaxFiles == 3

\* The clock of the event loop is followed up to MaxTime.
MaxTime == 6

Mp3 == <<".", "m", "p", "3">>
Incoming == <<".", "i", "n", "c", "o", "m", "i", "n", "g">>
DefaultToken == <<"_", "d", "u", "p", "l", "i", "c", "a", "t", "e", "_">>
DefaultPattern == <<"%", "A", "/", "%", "L", "/", "%", "S">>

\* --dest-root and --duplicates-json of the modelled runs
DestRoot == <<"/", "o">>
DuplicatesJson == <<"/", "r", "/", "d", ".", "j", "s", "o", "n">>

\* The keys of the mapping, in its order, are the first MaxEntries of these
\* source paths: a file that sits where its metadata may render to under the
\* destination root, two files with one basename in two directories, and a
\* file with a basename of its own.
Sources ==
    << DestRoot \o <<"/", "A", "/", "S">> \o Mp3,
       <<"/", "a", "/", "x">> \o Mp3,
       <<"/", "b", "/", "x">> \o Mp3,
       <<"/", "a", "/", "y">> \o Mp3 >>

\* The files that may exist under the destination root before the run,
\* besides the sources: the names a duplicate is given, and the temporary
\* path of a copy
PreFiles ==
    { DestRoot \o <<"/", "A", "/", "S">> \o DefaultToken \o <<"x">> \o Mp3,
      DestRoot \o <<"/", "A", "/", "S">> \o DefaultToken \o <<"x", "_", "2">> \o Mp3,
      DestRoot \o <<"/", "A", "/", "S">> \o Mp3 \o Incoming }

\* A metadata record: the fields main reads with meta.get (306-336)
Meta(author, album, song) ==
    [author |-> author, album |-> album, song |-> song,
     author_unknown |-> "None", album_unknown |-> "None", song_unknown |-> "None",
     artist_adamid |-> None, release_year |-> None, label |-> None,
     genre_primary |-> None, isrc |-> None, explicit |-> FALSE,
     applemusic_track_id |-> None, applemusic_album_id |-> None]

\* The records of the modelled mappings: one artist, no album, and a song
\* title that is either "S" or "S_2", the name "S" gets with a numeric suffix
Metas ==
    { Meta(<<"A">>, None, <<"S">>),
      Meta(<<"A">>, None, <<"S", "_", "2">>) }

\* --duplicate-token: the default, and the empty token
Tokens == { DefaultToken, <<>> }

\* The contents of the sources, one number per distinct content and 0 for a
\* source that is absent; contents are numbered in order of first appearance
SourceContents ==
    { c \in [1..MaxEntries -> 0..MaxEntries] :
        \A i \in 1..MaxEntries :
            \A v \in 1..(c[i] - 1) : \E j \in 1..(i - 1) : c[j] = v }

(***************************************************************************)
(* The state of a run of main                                              *)
(***************************************************************************)

VARIABLES
    args,               \* the parsed command line
    input_kind,         \* what is found at --input: see InputKinds
    mapping,            \* the mapping the input file holds: a sequence of [src, meta]
    unreadable,         \* the sources that can be sized but not opened
    same_volume,        \* the sources and the destination root share a filesystem
    fs,                 \* the files on disk: path -> content
    fs0,                \* the files on disk when the run started
    dirs,               \* the directories on disk
    pc,                 \* where main is
    idx,                \* grouping loop: the next mapping entry
    groups,             \* the groups dict, in insertion order: [key, items]
    missing_sources,
    total_entries,
    gi,                 \* planning loop: the current group
    valid_items,
    ii,                 \* planning loop: the next valid item of the group
    seen_hashes,
    unique_count,
    ops,
    duplicates_report,  \* the dict, in insertion order: [key, entries]
    duplicate_groups,
    total_duplicates_kept,
    identical_duplicates_skipped,
    already_in_place,
    planned_copies,
    planned_moves,
    oi,                 \* apply loop: the next operation
    copies_performed,
    moves_performed,
    console,            \* what was printed: the summary, the missing sources
    report,             \* the report this run wrote at --duplicates-json, else NoReport
    exit_code,          \* the exit status, NotExited while running
    run,                \* the number of the run, counted from 1
    prev_console,       \* what the run before this one printed
    prev_report,        \* the report the run before this one wrote
    bargs,              \* batch_recognize: the parsed command line
    batch_files,        \* batch_recognize: files, the audio files selected, in order
    bpc,                \* where run is: "run", "gather" or "returned"
    loop_time,          \* loop.time()
    last_ts,            \* RateLimiter._last_ts
    limiter_lock,       \* RateLimiter._lock: the worker that holds it, 0 when free
    sem,                \* the value of the semaphore
    wpc,                \* where each worker is
    deadline,           \* when the asyncio.sleep of the limiter is due
    ret,                \* what recognize_file returned to each worker: [meta, err]
    results,            \* the dict: file -> metadata
    errors,
    unrecognized,
    processed,
    recognized_count,
    error_count,
    written,            \* the output files: [results, errors, unrecognized]
    batch_exit,         \* what run returned, as a sequence of at most one code
    last_return         \* the instant at which RateLimiter.wait() last returned, if it did

inputs == <<args, input_kind, mapping, unreadable, same_volume, fs0>>
gvars == <<idx, groups, missing_sources, total_entries>>
pvars == <<gi, valid_items, ii, seen_hashes, unique_count, ops, duplicates_report,
           duplicate_groups, total_duplicates_kept, identical_duplicates_skipped,
           already_in_place, planned_copies, planned_moves>>
evars == <<oi, copies_performed, moves_performed>>
ovars == <<console, report, exit_code>>
hist == <<run, prev_console, prev_report>>
recognizer == <<bargs, batch_files, bpc, loop_time, last_ts, limiter_lock, sem, wpc, deadline, ret,
                results, errors, unrecognized, processed, recognized_count,
                error_count, written, batch_exit, last_return>>
vars == <<inputs, hist, recognizer, fs, dirs, pc, gvars, pvars, evars, ovars>>

NoReport == [written |-> FALSE]
NotExited == "running"

\* h = None (line 419)
NoHash == 0

\* The number of missing sources the console lists (line 599)
MissingListed == 50

(***************************************************************************)
(* The filesystem                                                          *)
(***************************************************************************)

\* A directory and the directories above it
RECURSIVE WithParents(_)
WithParents(d) ==
    IF d = <<>> \/ d = <<"/">> THEN {<<"/">>}
    ELSE {d} \cup WithParents(dirname(d))

\* os.path.exists
exists(p) == p \in DOMAIN fs \/ p \in dirs

\* The files after path is given content c
WriteFile(files, path, c) ==
    [q \in DOMAIN files \cup {path} |-> IF q = path THEN c ELSE files[q]]

\* What a file holds while content c is being written to it: a part of c
Partial(c) == -c

\* A file holds a part of what was being written to it
IsPartial(c) == c < 0

\* The files after path is removed
RemoveFile(files, path) == [q \in DOMAIN files \ {path} |-> files[q]]

\* os.path.getsize of an existing file: its content is all the model holds of
\* a file, and main only reads the sign of the size
getsize(path) == fs[path]

\* compute_file_hash when every file that exists can be opened
compute_file_hash_opens_all(path) == IF path \in DOMAIN fs THEN fs[path] ELSE NoHash

\* open(path, "rb") succeeds
Readable(path) == path \in DOMAIN fs /\ path \notin unreadable

\* compute_file_hash: SHA-256 is taken to tell contents apart; a file that
\* cannot be opened raises, and main turns that into None
compute_file_hash(path) == IF Readable(path) THEN fs[path] ELSE NoHash

RECURSIVE UniqueFrom(_, _)
UniqueFrom(base_dest, n) ==
    IF exists(add_suffix_to_filename(base_dest, n))
    THEN UniqueFrom(base_dest, n + 1)
    ELSE <<add_suffix_to_filename(base_dest, n), n>>

\* compute_unique_destination without the loop of lines 134-137: the first
\* candidate is returned whether or not it exists
compute_unique_destination_unchecked(base_dest, start_n) ==
    <<add_suffix_to_filename(base_dest, IF start_n > 1 THEN start_n ELSE 1),
      IF start_n > 1 THEN start_n ELSE 1>>

\* <<unique_dest_path, final_n>>
compute_unique_destination(base_dest, start_n) ==
    UniqueFrom(base_dest, IF start_n > 1 THEN start_n ELSE 1)

(***************************************************************************)
(* Loading the mapping (lines 264-290)                                     *)
(***************************************************************************)

\* What may be found at --input: a JSON object, no file, a file that cannot
\* be opened, a file that is no JSON, and JSON that is no object
InputKinds == {"ok", "missing", "unreadable", "invalid", "not-object"}

\* An uncaught exception ends the run: the traceback is printed and the
\* status is 1
Traceback(what) == Append(console, [line |-> "Traceback", error |-> what])

\* Lines 285-290: what a verbose run prints first
HeaderLines(a) ==
    IF a.verbose
    THEN << [line |-> "Header", dest_root |-> abspath(a.dest_root),
             pattern |-> a.pattern, mode |-> IF a.move THEN "MOVE" ELSE "COPY",
             apply |-> a.apply, keep_unknowns |-> a.keep_unknowns] >>
    ELSE <<>>

\* Lines 266-290 without the exits of lines 268-281
LoadMapping_unchecked ==
    /\ pc = "load"
    /\ console' = console \o HeaderLines(args)
    /\ pc' = "group"
    /\ UNCHANGED <<inputs, hist, recognizer, fs, dirs, gvars, pvars, evars, report, exit_code>>

\* Lines 266-290: the mapping is loaded and is a JSON object
LoadMapping ==
    /\ pc = "load"
    /\ input_kind = "ok"
    /\ console' = console \o HeaderLines(args)
    /\ pc' = "group"
    /\ UNCHANGED <<inputs, hist, recognizer, fs, dirs, gvars, pvars, evars, report, exit_code>>

\* Lines 268-281: sys.exit(1) for a file that is missing, no JSON or no JSON
\* object; open() of a file that cannot be opened raises PermissionError,
\* which line 267 does not catch, and the interpreter exits with status 1
LoadFail ==
    /\ pc = "load"
    /\ input_kind # "ok"
    /\ console' = IF input_kind = "unreadable" THEN Traceback("PermissionError")
                  ELSE Append(console, [line |-> "ERROR", error |-> input_kind])
    /\ exit_code' = "1"
    /\ pc' = "exited"
    /\ UNCHANGED <<inputs, hist, recognizer, fs, dirs, gvars, pvars, evars, report>>

(***************************************************************************)
(* Grouping (lines 292-386)                                                *)
(***************************************************************************)

\* x or "Unknown"
OrUnknown(x) == IF x = None \/ x = <<>> THEN Unknown ELSE x

\* Lines 306-361: the substitution table of one entry
Replacements(meta) ==
    LET author == IF meta.author_unknown = "True" \/ is_unknown_text(meta.author)
                  THEN Unknown \o <<" ", "A", "r", "t", "i", "s", "t">>
                  ELSE meta.author
        album == IF meta.album_unknown = "True" \/ is_unknown_text(meta.album)
                 THEN Unknown \o <<" ", "A", "l", "b", "u", "m">>
                 ELSE meta.album
        song == IF meta.song_unknown = "True" \/ is_unknown_text(meta.song)
                THEN Unknown \o <<" ", "S", "o", "n", "g">>
                ELSE meta.song
    IN  [k \in {Placeholders[i] : i \in 1..Len(Placeholders)} |->
            CASE k = "A" -> sanitize_component(author)
              [] k = "L" -> sanitize_component(album)
              [] k = "S" -> sanitize_component(song)
              [] k = "Y" -> sanitize_component(IF meta.release_year # None
                                               THEN meta.release_year ELSE Unknown)
              [] k = "G" -> sanitize_component(OrUnknown(meta.genre_primary))
              [] k = "B" -> sanitize_component(OrUnknown(meta.label))
              [] k = "I" -> sanitize_component(OrUnknown(meta.isrc))
              [] k = "E" -> IF meta.explicit
                            THEN <<"E", "x", "p", "l", "i", "c", "i", "t">>
                            ELSE <<"C", "l", "e", "a", "n">>
              [] k = "e" -> IF meta.explicit THEN <<"t", "r", "u", "e">>
                            ELSE <<"f", "a", "l", "s", "e">>
              [] k = "a" -> sanitize_component(OrUnknown(meta.artist_adamid))
              [] k = "T" -> sanitize_component(OrUnknown(meta.applemusic_track_id))
              [] k = "U" -> sanitize_component(OrUnknown(meta.applemusic_album_id))]

\* Lines 321-386: the item main files under its key
Item(src, meta) ==
    LET r == Replacements(meta)
        ext == Lower(splitext(src)[2])
    IN  [src |-> src,
         size |-> IF src \in DOMAIN fs THEN getsize(src) ELSE -1,
         author_s |-> r["A"], album_s |-> r["L"], song_s |-> r["S"],
         ext |-> ext,
         dest_rel_base |-> build_dest_rel_base(r, ext, args.pattern,
                                               args.keep_unknowns)]

\* groups[key].append(item), and dict.setdefault(key, []).append(entry): a new
\* key goes last
AppendUnder(dict, key, field, x) ==
    IF \E g \in 1..Len(dict) : dict[g].key = key
    THEN [g \in 1..Len(dict) |->
            IF dict[g].key = key
            THEN [dict[g] EXCEPT ![field] = Append(@, x)]
            ELSE dict[g]]
    ELSE Append(dict, [k \in {"key", field} |-> IF k = "key" THEN key ELSE <<x>>])

\* Line 301: a value that is no dict (it has none of a record's fields), or a
\* key such as "$schema"
Skipped(e) == "song" \notin DOMAIN e.meta \/ StartsWith(e.src, <<"$">>)

\* Lines 369-373 without line 373: a missing source is not recorded
RecordMissing_dropped(missing, it) == missing

\* Lines 369-373: a source that cannot be sized is recorded as missing
RecordMissing(missing, it) ==
    IF it.size < 0 THEN Append(missing, it.src) ELSE missing

\* One pass of the loop of line 299
GroupEntry ==
    /\ pc = "group"
    /\ idx <= Len(mapping)
    /\ LET e == mapping[idx]
           it == Item(e.src, e.meta)
       IN  IF Skipped(e)
           THEN UNCHANGED <<groups, missing_sources, total_entries>>
           ELSE /\ total_entries' = total_entries + 1
                /\ missing_sources' = RecordMissing(missing_sources, it)
                /\ groups' = AppendUnder(groups, Lower(it.dest_rel_base), "items", it)
    /\ idx' = idx + 1
    /\ UNCHANGED <<inputs, hist, recognizer, fs, dirs, pc, pvars, evars, ovars>>

\* The loop of line 299 ends
GroupDone ==
    /\ pc = "group"
    /\ idx > Len(mapping)
    /\ pc' = "plan"
    /\ UNCHANGED <<inputs, hist, recognizer, fs, dirs, gvars, pvars, evars, ovars>>

(***************************************************************************)
(* Planning (lines 394-489)                                                *)
(***************************************************************************)

\* Lines 441-446 without line 445: the token is inserted as it was configured
DuplicateCandidate_literal_token(dest_abs_base, src, duplicate_token) ==
    LET d == dirname(dest_abs_base)
        se == splitext(basename(dest_abs_base))
        src_stem == sanitize_component(splitext(basename(src))[1])
    IN  join(d, se[1] \o duplicate_token \o src_stem \o se[2])

\* Lines 441-446: the name of the 2nd and later distinct contents of a group
DuplicateCandidate(dest_abs_base, src, duplicate_token) ==
    LET d == dirname(dest_abs_base)
        se == splitext(basename(dest_abs_base))
        src_stem == sanitize_component(splitext(basename(src))[1])
        safe_token == sanitize_component(duplicate_token)
    IN  join(d, se[1] \o safe_token \o src_stem \o se[2])

\* Lines 432-446
Candidate(it, count) ==
    LET dest_abs_base == join(args.dest_root, it.dest_rel_base)
    IN  IF count = 1 THEN dest_abs_base
        ELSE DuplicateCandidate(dest_abs_base, it.src, args.duplicate_token)

\* Line 421 when contents are compared only in an apply run
IsIdentical_only_applying(h, seen) == args.apply /\ h # NoHash /\ h \in seen

\* Line 421: the source is identical to one seen in its group
IsIdentical(h, seen) == h # NoHash /\ h \in seen

\* Line 465: the source already sits at its destination
InPlace(src, unique_abs) == abspath(src) = abspath(unique_abs)

\* Line 407 without its filter: every item of a group is planned
ValidItems_unfiltered(items) == items

\* Line 407 when the items of a group are taken last to first
ValidItems_last_first(items) ==
    LET valid == SelectSeq(items, LAMBDA i : i.size >= 0)
    IN  [k \in 1..Len(valid) |-> valid[Len(valid) + 1 - k]]

\* Line 407: the items of a group whose source could be sized
ValidItems(items) == SelectSeq(items, LAMBDA i : i.size >= 0)

\* Lines 407-412: a group is entered
PlanGroupBegin ==
    /\ pc = "plan"
    /\ gi <= Len(groups)
    /\ LET valid == ValidItems(groups[gi].items)
       IN  /\ valid_items' = valid
           /\ duplicate_groups' = IF Len(valid) > 1 THEN duplicate_groups + 1
                                  ELSE duplicate_groups
    /\ seen_hashes' = {}
    /\ unique_count' = 0
    /\ ii' = 1
    /\ pc' = "item"
    /\ UNCHANGED <<inputs, hist, recognizer, fs, dirs, gvars, gi, ops, duplicates_report,
                   total_duplicates_kept, identical_duplicates_skipped,
                   already_in_place, planned_copies, planned_moves, evars, ovars>>

\* One pass of the loop of line 414
PlanItem ==
    /\ pc = "item"
    /\ ii <= Len(valid_items)
    /\ LET it == valid_items[ii]
           key == groups[gi].key
           h == compute_file_hash(it.src)
           unique_abs == compute_unique_destination(Candidate(it, unique_count + 1), 1)[1]
           unique_rel == relpath(unique_abs, args.dest_root)
           action == IF args.move THEN "MOVE" ELSE "COPY"
       IN  IF IsIdentical(h, seen_hashes)
           THEN /\ identical_duplicates_skipped' = identical_duplicates_skipped + 1
                /\ duplicates_report' =
                      IF Len(valid_items) > 1
                      THEN AppendUnder(duplicates_report, key, "entries",
                                       <<it.src, None, "skipped-identical">>)
                      ELSE duplicates_report
                /\ UNCHANGED <<seen_hashes, unique_count, ops, already_in_place,
                               planned_copies, planned_moves>>
           ELSE /\ seen_hashes' = IF h # NoHash THEN seen_hashes \cup {h}
                                  ELSE seen_hashes
                /\ unique_count' = unique_count + 1
                /\ duplicates_report' =
                      IF Len(valid_items) > 1
                      THEN AppendUnder(duplicates_report, key, "entries",
                                       <<it.src, unique_rel>>)
                      ELSE duplicates_report
                /\ IF InPlace(it.src, unique_abs)
                   THEN /\ already_in_place' = already_in_place + 1
                        /\ UNCHANGED <<ops, planned_copies, planned_moves>>
                   ELSE /\ planned_moves' = IF action = "MOVE" THEN planned_moves + 1
                                            ELSE planned_moves
                        /\ planned_copies' = IF action = "MOVE" THEN planned_copies
                                             ELSE planned_copies + 1
                        /\ ops' = Append(ops, [action |-> action, src |-> it.src,
                                               dest_abs |-> unique_abs,
                                               dest_rel |-> unique_rel,
                                               size |-> it.size])
                        /\ UNCHANGED already_in_place
                /\ UNCHANGED identical_duplicates_skipped
    /\ ii' = ii + 1
    /\ UNCHANGED <<inputs, hist, recognizer, fs, dirs, pc, gvars, gi, valid_items, duplicate_groups,
                   total_duplicates_kept, evars, ovars>>

\* Lines 487-489: a group is left
PlanGroupEnd ==
    /\ pc = "item"
    /\ ii > Len(valid_items)
    /\ total_duplicates_kept' =
          IF Len(valid_items) > 1 /\ unique_count > 1
          THEN total_duplicates_kept + (unique_count - 1)
          ELSE total_duplicates_kept
    /\ gi' = gi + 1
    /\ pc' = "plan"
    /\ UNCHANGED <<inputs, hist, recognizer, fs, dirs, gvars, valid_items, ii, seen_hashes,
                   unique_count, ops, duplicates_report, duplicate_groups,
                   identical_duplicates_skipped, already_in_place,
                   planned_copies, planned_moves, evars, ovars>>

\* Line 495 without its test of args.apply
AfterPlanning_always_apply == "apply"

\* Line 495: the operations are applied only with --apply
AfterPlanning == IF args.apply THEN "apply" ELSE "summary"

\* Lines 525-528: what a verbose dry run prints of its plan
PlanLines ==
    [k \in 1..Len(ops) |->
        [line |-> "PLAN", action |-> ops[k].action, src |-> ops[k].src,
         dest_abs |-> ops[k].dest_abs]]

\* Lines 509, 523: what a verbose apply run prints of a performed operation
DoneLine(op) ==
    [line |-> "DONE", action |-> op.action, src |-> op.src, dest_abs |-> op.dest_abs]

\* The loop of line 404 ends, and the branch of line 495 is taken
PlanDone ==
    /\ pc = "plan"
    /\ gi > Len(groups)
    /\ pc' = AfterPlanning
    /\ console' = IF AfterPlanning = "summary" /\ args.verbose
                  THEN console \o PlanLines ELSE console
    /\ UNCHANGED <<inputs, hist, recognizer, fs, dirs, gvars, pvars, evars, report, exit_code>>

(***************************************************************************)
(* Applying (lines 495-523)                                                *)
(***************************************************************************)

\* os.makedirs(dest_dir, exist_ok=True)
makedirs(d) == dirs \cup WithParents(d)

\* shutil.move(src, dst) for a dst that is no directory: os.rename, which
\* replaces a file at dst
Move(files, src, dst) == WriteFile(RemoveFile(files, src), dst, files[src])

\* Lines 514-518: a file at the temporary path is removed
RemoveStale(files, temp_path) ==
    IF temp_path \in DOMAIN files THEN RemoveFile(files, temp_path) ELSE files

\* shutil.copy2(src, dst): dst gets the content of src
Copy2(files, src, dst) == WriteFile(files, dst, files[src])

\* os.replace(src, dst): dst is replaced by src
Replace2(files, src, dst) == WriteFile(RemoveFile(files, src), dst, files[src])

\* print of lines 509 and 523
Printed(op) == IF args.verbose THEN Append(console, DoneLine(op)) ELSE console

\* Lines 497-509: a MOVE operation whose shutil.move is an os.rename
ApplyMove ==
    /\ pc = "apply"
    /\ oi <= Len(ops)
    /\ ops[oi].action = "MOVE"
    /\ same_volume
    /\ ops[oi].src \in DOMAIN fs
    /\ dirs' = makedirs(dirname(ops[oi].dest_abs))
    /\ fs' = Move(fs, ops[oi].src, ops[oi].dest_abs)
    /\ moves_performed' = moves_performed + 1
    /\ console' = Printed(ops[oi])
    /\ oi' = oi + 1
    /\ UNCHANGED <<inputs, hist, recognizer, pc, gvars, pvars, copies_performed, report, exit_code>>

\* Lines 497-506: a MOVE operation to another filesystem: os.rename fails and
\* shutil.move copies the source onto the destination itself; the copy begins
ApplyMoveCopy ==
    /\ pc = "apply"
    /\ oi <= Len(ops)
    /\ ops[oi].action = "MOVE"
    /\ ~same_volume
    /\ Readable(ops[oi].src)
    /\ dirs' = makedirs(dirname(ops[oi].dest_abs))
    /\ fs' = WriteFile(fs, ops[oi].dest_abs, Partial(fs[ops[oi].src]))
    /\ pc' = "moving"
    /\ UNCHANGED <<inputs, hist, recognizer, gvars, pvars, evars, ovars>>

\* The copy of shutil.move ends
ApplyMoveCopied ==
    /\ pc = "moving"
    /\ fs' = Copy2(fs, ops[oi].src, ops[oi].dest_abs)
    /\ pc' = "unlink"
    /\ UNCHANGED <<inputs, hist, recognizer, dirs, gvars, pvars, evars, ovars>>

\* shutil.move removes the source it copied; lines 507-509
ApplyMoveUnlink ==
    /\ pc = "unlink"
    /\ fs' = RemoveFile(fs, ops[oi].src)
    /\ moves_performed' = moves_performed + 1
    /\ console' = Printed(ops[oi])
    /\ oi' = oi + 1
    /\ pc' = "apply"
    /\ UNCHANGED <<inputs, hist, recognizer, dirs, gvars, pvars, copies_performed, report, exit_code>>

\* Lines 497-502, 510-519: a COPY operation, up to the start of the copy to
\* the temporary path
ApplyCopyTemp ==
    /\ pc = "apply"
    /\ oi <= Len(ops)
    /\ ops[oi].action = "COPY"
    /\ Readable(ops[oi].src)
    /\ dirs' = makedirs(dirname(ops[oi].dest_abs))
    /\ LET temp_path == ops[oi].dest_abs \o Incoming
       IN  fs' = WriteFile(RemoveStale(fs, temp_path), temp_path,
                           Partial(fs[ops[oi].src]))
    /\ pc' = "copying"
    /\ UNCHANGED <<inputs, hist, recognizer, gvars, pvars, evars, ovars>>

\* Line 519: shutil.copy2 ends
ApplyCopyWritten ==
    /\ pc = "copying"
    /\ fs' = Copy2(fs, ops[oi].src, ops[oi].dest_abs \o Incoming)
    /\ pc' = "replace"
    /\ UNCHANGED <<inputs, hist, recognizer, dirs, gvars, pvars, evars, ovars>>

\* Lines 520-523: the temporary file is renamed onto the destination
ApplyCopyReplace ==
    /\ pc = "replace"
    /\ fs' = Replace2(fs, ops[oi].dest_abs \o Incoming, ops[oi].dest_abs)
    /\ copies_performed' = copies_performed + 1
    /\ console' = Printed(ops[oi])
    /\ oi' = oi + 1
    /\ pc' = "apply"
    /\ UNCHANGED <<inputs, hist, recognizer, dirs, gvars, pvars, moves_performed, report, exit_code>>

\* Lines 506, 519: the source of the operation cannot be opened, so the copy
\* raises; nothing in main catches it. Line 502 and lines 514-518 have run.
ApplyRaise ==
    /\ pc = "apply"
    /\ oi <= Len(ops)
    /\ ops[oi].src \in DOMAIN fs
    /\ ~Readable(ops[oi].src)
    /\ ops[oi].action = "COPY" \/ ~same_volume
    /\ dirs' = makedirs(dirname(ops[oi].dest_abs))
    /\ fs' = IF ops[oi].action = "COPY"
             THEN RemoveStale(fs, ops[oi].dest_abs \o Incoming) ELSE fs
    /\ console' = Traceback("PermissionError")
    /\ exit_code' = "1"
    /\ pc' = "raised"
    /\ UNCHANGED <<inputs, hist, recognizer, gvars, pvars, evars, report>>

\* The loop of line 496 ends
ApplyDone ==
    /\ pc = "apply"
    /\ oi > Len(ops)
    /\ pc' = "summary"
    /\ UNCHANGED <<inputs, hist, recognizer, fs, dirs, gvars, pvars, evars, ovars>>

(***************************************************************************)
(* The summary, the report and the list of missing sources (lines 530-602) *)
(***************************************************************************)

\* The directory of the script, which main reads from __file__ (line 573)
ScriptDir == <<"/", "s">>

\* sorted() of a dict's keys: the dict's entries in the order of their keys
RECURSIVE SortedByKey(_)
SortedByKey(dict) ==
    IF dict = <<>> THEN <<>>
    ELSE LET least == CHOOSE g \in 1..Len(dict) :
                         \A k \in 1..Len(dict) : ~StrLess(dict[k].key, dict[g].key)
             rest == [k \in 1..(Len(dict) - 1) |->
                         IF k < least THEN dict[k] ELSE dict[k + 1]]
         IN  <<dict[least]>> \o SortedByKey(rest)

\* Lines 556-569 without the branch of line 557: every entry is given as
\* planned
EntryJson_all_planned(entry) ==
    [src |-> entry[1],
     planned_dest_rel |-> entry[2],
     planned_dest_abs |-> join(args.dest_root, entry[2]),
     status |-> "planned"]

\* Lines 556-569: one entry of a group of the report
EntryJson(entry) ==
    IF Len(entry) = 3 /\ entry[3] = "skipped-identical"
    THEN [src |-> entry[1], status |-> "skipped-identical"]
    ELSE [src |-> entry[1],
          planned_dest_rel |-> entry[2],
          planned_dest_abs |-> join(args.dest_root, entry[2]),
          status |-> "planned"]

\* Lines 553-570
GroupsJson ==
    LET sorted == SortedByKey(duplicates_report)
    IN  [g \in 1..Len(sorted) |->
            [dest_key |-> sorted[g].key,
             entries |-> [k \in 1..Len(sorted[g].entries) |->
                            EntryJson(sorted[g].entries[k])]]]

\* Lines 572-589
ReportJson(now) ==
    [written |-> TRUE,
     schema |-> relpath(join(join(ScriptDir, <<"s", "c", "h", "e", "m", "a", "s">>),
                             <<"d", "u", "p", "l", "i", "c", "a", "t", "e", "s", ".",
                               "s", "c", "h", "e", "m", "a", ".", "j", "s", "o", "n">>),
                        dirname(abspath(args.duplicates_json))),
     generated_at |-> now,
     pattern |-> args.pattern,
     dest_root |-> abspath(args.dest_root),
     apply |-> args.apply,
     mode |-> IF args.move THEN "MOVE" ELSE "COPY",
     stats |-> [duplicate_groups |-> duplicate_groups,
                distinct_duplicates_kept |-> total_duplicates_kept,
                identical_duplicates_skipped |-> identical_duplicates_skipped],
     groups |-> GroupsJson]

\* Lines 531-545: what the summary prints
SummaryLines ==
    [line |-> "Summary",
     total_entries |-> total_entries,
     unique_destinations |-> Len(groups),
     missing_source_files |-> Len(missing_sources),
     already_in_place |-> already_in_place,
     duplicate_groups |-> duplicate_groups,
     distinct_duplicates_kept |-> total_duplicates_kept,
     identical_duplicates_skipped |-> identical_duplicates_skipped,
     will_copy |-> planned_copies,
     will_move |-> planned_moves,
     copied |-> IF args.apply THEN copies_performed ELSE 0,
     moved |-> IF args.apply THEN moves_performed ELSE 0,
     dry_run |-> ~args.apply]

\* Lines 597-602: what the console lists of the missing sources
MissingLines ==
    [line |-> "Missing sources (skipped)",
     sources |-> SubSeq(missing_sources, 1,
                        IF Len(missing_sources) > MissingListed
                        THEN MissingListed ELSE Len(missing_sources)),
     more |-> IF Len(missing_sources) > MissingListed
              THEN Len(missing_sources) - MissingListed ELSE 0]

\* Lines 531-545
Summary ==
    /\ pc = "summary"
    /\ console' = Append(console, SummaryLines)
    /\ pc' = "report"
    /\ UNCHANGED <<inputs, hist, recognizer, fs, dirs, gvars, pvars, evars, report, exit_code>>

\* Lines 547-594: the report is written at --duplicates-json
WriteReport ==
    /\ pc = "report"
    /\ \E now \in 1..MaxClock : report' = ReportJson(now)
    /\ dirs' = IF dirname(args.duplicates_json) # <<>>
               THEN makedirs(dirname(args.duplicates_json)) ELSE dirs
    /\ console' = Append(console, [line |-> "Duplicates report JSON written to",
                                   path |-> args.duplicates_json])
    /\ pc' = "missing"
    /\ UNCHANGED <<inputs, hist, recognizer, fs, gvars, pvars, evars, exit_code>>

\* Lines 596-602, and the return of main
ListMissing ==
    /\ pc = "missing"
    /\ console' = IF missing_sources # <<>> THEN Append(console, MissingLines)
                  ELSE console
    /\ exit_code' = "0"
    /\ pc' = "done"
    /\ UNCHANGED <<inputs, hist, recognizer, fs, dirs, gvars, pvars, evars, report>>

(***************************************************************************)
(* The specification                                                       *)
(***************************************************************************)

\* The files on disk before the run: the sources that exist, and pre (each
\* with the content numbered 1)
InitialFiles(contents, pre) ==
    LET present == {i \in 1..MaxEntries : contents[i] > 0}
        paths == {Sources[i] : i \in present} \cup pre
    IN  [q \in paths |->
            IF \E i \in present : Sources[i] = q
            THEN contents[CHOOSE i \in present : Sources[i] = q]
            ELSE 1]

\* The working state of main when it starts
Fresh ==
    /\ idx = 1
    /\ groups = <<>>
    /\ missing_sources = <<>>
    /\ total_entries = 0
    /\ gi = 1
    /\ valid_items = <<>>
    /\ ii = 1
    /\ seen_hashes = {}
    /\ unique_count = 0
    /\ ops = <<>>
    /\ duplicates_report = <<>>
    /\ duplicate_groups = 0
    /\ total_duplicates_kept = 0
    /\ identical_duplicates_skipped = 0
    /\ already_in_place = 0
    /\ planned_copies = 0
    /\ planned_moves = 0
    /\ oi = 1
    /\ copies_performed = 0
    /\ moves_performed = 0
    /\ report = NoReport
    /\ exit_code = NotExited

\* No run came before this one, and batch_recognize, which wrote the mapping
\* file, has returned
FirstRun ==
    /\ run = 1
    /\ prev_console = <<>>
    /\ prev_report = NoReport
    /\ bargs = [folder_ok |-> TRUE, limit |-> <<>>, delay |-> 0, concurrency |-> 1,
                dump_every |-> 0]
    /\ batch_files = <<>>
    /\ bpc = "returned"
    /\ loop_time = 0
    /\ last_ts = 0
    /\ limiter_lock = 0
    /\ sem = 0
    /\ wpc = <<>>
    /\ deadline = 0
    /\ ret = <<>>
    /\ results = <<>>
    /\ errors = <<>>
    /\ unrecognized = <<>>
    /\ processed = 0
    /\ recognized_count = 0
    /\ error_count = 0
    /\ written = [results |-> <<>>, errors |-> <<>>, unrecognized |-> <<>>]
    /\ batch_exit = <<0>>
    /\ last_return = <<>>

\* The command line of the modelled runs; they are verbose
Args(apply, move, keep_unknowns, pattern, token) ==
    [apply |-> apply, move |-> move, pattern |-> pattern,
     keep_unknowns |-> keep_unknowns, duplicate_token |-> token,
     dest_root |-> DestRoot, duplicates_json |-> DuplicatesJson,
     verbose |-> TRUE]

\* A run whose mapping was loaded, whose sources can all be read, and that
\* shares a filesystem with them
Init ==
    /\ \E metas \in [1..MaxEntries -> Metas],
          contents \in SourceContents, pre \in SUBSET PreFiles,
          apply \in BOOLEAN, move \in BOOLEAN, token \in Tokens :
          /\ Cardinality(pre) <= MaxPre
          /\ mapping = [i \in 1..MaxEntries |->
                          [src |-> Sources[i], meta |-> metas[i]]]
          /\ fs0 = InitialFiles(contents, pre)
          /\ args = Args(apply, move, FALSE, DefaultPattern, token)
    /\ input_kind = "ok"
    /\ unreadable = {}
    /\ same_volume = TRUE
    /\ fs = fs0
    /\ dirs = UNION {WithParents(dirname(q)) : q \in DOMAIN fs0}
    /\ pc = "group"
    /\ console = HeaderLines(args)
    /\ Fresh
    /\ FirstRun

Next ==
    \/ GroupEntry
    \/ GroupDone
    \/ PlanGroupBegin
    \/ PlanItem
    \/ PlanGroupEnd
    \/ PlanDone
    \/ ApplyMove
    \/ ApplyCopyTemp
    \/ ApplyCopyWritten
    \/ ApplyCopyReplace
    \/ ApplyDone
    \/ Summary
    \/ WriteReport
    \/ ListMissing

Spec == Init /\ [][Next]_vars

(***************************************************************************)
(* A dry run followed by another run                                       *)
(***************************************************************************)

\* The organizer is started again after a dry run has returned, with the same
\* mapping and options, again as a dry run or now with --apply, on the
\* filesystem the dry run left
Rerun ==
    /\ pc = "done"
    /\ ~args.apply
    /\ run < MaxRuns
    /\ \E apply \in BOOLEAN :
          /\ args' = [args EXCEPT !.apply = apply]
          /\ console' = HeaderLines(args')
    /\ run' = run + 1
    /\ prev_console' = console
    /\ prev_report' = report
    /\ fs0' = fs
    /\ pc' = "group"
    /\ idx' = 1
    /\ groups' = <<>>
    /\ missing_sources' = <<>>
    /\ total_entries' = 0
    /\ gi' = 1
    /\ valid_items' = <<>>
    /\ ii' = 1
    /\ seen_hashes' = {}
    /\ unique_count' = 0
    /\ ops' = <<>>
    /\ duplicates_report' = <<>>
    /\ duplicate_groups' = 0
    /\ total_duplicates_kept' = 0
    /\ identical_duplicates_skipped' = 0
    /\ already_in_place' = 0
    /\ planned_copies' = 0
    /\ planned_moves' = 0
    /\ oi' = 1
    /\ copies_performed' = 0
    /\ moves_performed' = 0
    /\ report' = NoReport
    /\ exit_code' = NotExited
    /\ UNCHANGED <<input_kind, mapping, unreadable, same_volume, fs, dirs, recognizer>>

NextRuns == Next \/ Rerun

SpecRuns == Init /\ [][NextRuns]_vars

(***************************************************************************)
(* Runs that meet faults: an input file that does not load, a source that  *)
(* cannot be opened, a destination root on another filesystem              *)
(***************************************************************************)

\* The sets of sources that cannot be opened
Unreadables == { {}, {Sources[2]} }

InitFaults ==
    /\ \E metas \in [1..MaxEntries -> Metas], contents \in SourceContents,
          apply \in BOOLEAN, move \in BOOLEAN, kind \in InputKinds,
          locked \in Unreadables, near \in BOOLEAN :
          /\ input_kind = kind
          /\ mapping = IF kind = "ok"
                       THEN [i \in 1..MaxEntries |->
                               [src |-> Sources[i], meta |-> metas[i]]]
                       ELSE <<>>
          /\ fs0 = InitialFiles(contents, {})
          /\ locked \subseteq DOMAIN fs0
          /\ unreadable = locked
          /\ same_volume = near
          /\ args = Args(apply, move, FALSE, DefaultPattern, DefaultToken)
    /\ fs = fs0
    /\ dirs = UNION {WithParents(dirname(q)) : q \in DOMAIN fs0}
    /\ pc = "load"
    /\ console = <<>>
    /\ Fresh
    /\ FirstRun

NextFaults ==
    \/ LoadMapping
    \/ LoadFail
    \/ Next
    \/ ApplyMoveCopy
    \/ ApplyMoveCopied
    \/ ApplyMoveUnlink
    \/ ApplyRaise

SpecFaults == InitFaults /\ [][NextFaults]_vars

(***************************************************************************)
(* Runs over one or two entries, for the rendering of their paths          *)
(***************************************************************************)

\* A record with its unknown flags: "True", "False", or "None" when absent
MetaWith(author, author_unknown, album, album_unknown, song, song_unknown) ==
    [Meta(author, album, song) EXCEPT !.author_unknown = author_unknown,
                                      !.album_unknown = album_unknown,
                                      !.song_unknown = song_unknown]

\* Records that differ in their texts and flags. The texts: a plain one,
\* unknown markers ("Unknown", "Unknown x"), an absent one, and a marker
\* behind punctuation. The flags: "True", "False", or "None" when absent.
RenderMetas ==
    LET UnknownFlags == {"None", "True", "False"}
        AuthorTexts == { <<"A">>, Unknown }
        AlbumTexts == { <<"L">>, Unknown \o <<" ", "x">>, None }
        SongTexts == { <<"S">>, Unknown, <<"-">> \o Unknown }
    IN  { MetaWith(a, af, l, lf, t, tf) :
            a \in AuthorTexts, af \in UnknownFlags, l \in AlbumTexts, lf \in UnknownFlags,
            t \in SongTexts, tf \in UnknownFlags }

\* The characters of the texts given to sanitize_component: a letter, a
\* space, a dot, a separator, a reserved character and two control characters
SanitizeAlphabet == { "a", " ", ".", "/", ":", "\t", Delete }

\* The texts of at most n characters
RECURSIVE TextsUpTo(_)
TextsUpTo(n) ==
    IF n = 0 THEN { <<>> }
    ELSE LET shorter == TextsUpTo(n - 1)
         IN  shorter \cup { Append(t, ch) : t \in shorter, ch \in SanitizeAlphabet }

\* Records whose song title is any such text
SanitizeMetas == { Meta(<<"A">>, <<"L">>, t) : t \in TextsUpTo(MaxLen) }

\* Patterns with an absolute-looking start and an empty segment, with "."
\* and ".." segments, of such segments only, with ".." behind a space, of the
\* album alone, with a placeholder that is not in the table, and with text
\* around a placeholder
RenderPatterns ==
    { DefaultPattern,
      <<" ", ".", ".", "/", "%", "S">>,
      <<"/", "%", "A", "/", "/", "%", "S">>,
      <<".", ".", "/", "%", "A", "/", ".", "/", "%", "S">>,
      <<".", ".", "/", ".">>,
      <<"%", "L">>,
      <<"%", "x", "/", "%", "S">>,
      <<"%", "A", "/", "%", "L", " ", "-", " ", "%", "Y", "/", "%", "S">> }

\* Records for these patterns: plain texts, an artist and a song that read
\* as placeholders, no known field, and texts made of separators and dots
PatternMetas ==
    { Meta(<<"A">>, <<"L">>, <<"S">>),
      Meta(<<"%", "S">>, <<"L">>, <<"%", "e">>),
      Meta(<<"A">>, None, <<"S">>),
      Meta(Unknown, None, Unknown),
      Meta(<<"a", "/", "b">>, <<".", ".">>, <<"/">>) }

\* One entry under the default pattern, for the texts and flags; one entry
\* under the other patterns; or two entries with different contents that
\* render to one path, the name of the second on disk or not, for the
\* duplicate tokens
InitRender ==
    /\ \E apply \in BOOLEAN, move \in BOOLEAN :
          \/ \E meta \in RenderMetas \cup SanitizeMetas, keep_unknowns \in BOOLEAN :
                /\ mapping = << [src |-> Sources[2], meta |-> meta] >>
                /\ args = Args(apply, move, keep_unknowns, DefaultPattern, DefaultToken)
                /\ fs0 = [q \in {Sources[2]} |-> 1]
          \/ \E meta \in PatternMetas, pattern \in RenderPatterns,
                keep_unknowns \in BOOLEAN :
                /\ mapping = << [src |-> Sources[2], meta |-> meta] >>
                /\ args = Args(apply, move, keep_unknowns, pattern, DefaultToken)
                /\ fs0 = [q \in {Sources[2]} |-> 1]
          \/ \E token \in TextsUpTo(MaxLen) \cup {DefaultToken},
                pre \in SUBSET {CHOOSE q \in PreFiles :
                                   basename(q) = <<"S">> \o DefaultToken \o <<"x">> \o Mp3} :
                /\ mapping = << [src |-> Sources[4], meta |-> Meta(<<"A">>, None, <<"S">>)],
                                [src |-> Sources[2], meta |-> Meta(<<"A">>, None, <<"S">>)] >>
                /\ args = Args(apply, move, FALSE, DefaultPattern, token)
                /\ fs0 = [q \in {Sources[4], Sources[2]} \cup pre |->
                            IF q = Sources[4] THEN 1 ELSE 2]
    /\ input_kind = "ok"
    /\ unreadable = {}
    /\ same_volume = TRUE
    /\ fs = fs0
    /\ dirs = UNION {WithParents(dirname(q)) : q \in DOMAIN fs0}
    /\ pc = "group"
    /\ console = HeaderLines(args)
    /\ Fresh
    /\ FirstRun

SpecRender == InitRender /\ [][Next]_vars

(***************************************************************************)
(* batch_recognize.py: run (lines 177-309), its workers (223-257),         *)
(* recognize_file (113-162) and RateLimiter (54-73)                        *)
(*                                                                         *)
(* The workers are coroutines of one event loop: the code between two      *)
(* points where a coroutine is suspended runs as one step, at one instant  *)
(* of loop.time(). A worker is suspended where it waits for the semaphore  *)
(* or the lock of the limiter, in asyncio.sleep, and while the recognizer  *)
(* subprocess runs; the three sections under progress_lock are steps of    *)
(* their own, which any other worker may run between. asyncio.sleep lasts  *)
(* at least as long as it was asked to.                                    *)
(***************************************************************************)

\* Lines 177-221: the folder is checked, the files are listed and cut to the
\* limit, and the workers are created, or run returns for want of files
Begin ==
    /\ bpc = "run"
    /\ IF ~bargs.folder_ok
       THEN /\ bpc' = "returned"
            /\ batch_exit' = <<2>>
            /\ UNCHANGED <<sem, wpc, ret>>
       ELSE IF batch_files = <<>>
       THEN /\ bpc' = "returned"
            /\ batch_exit' = <<0>>
            /\ UNCHANGED <<sem, wpc, ret>>
       ELSE /\ bpc' = "gather"
            /\ sem' = IF bargs.concurrency > 1 THEN bargs.concurrency ELSE 1
            /\ wpc' = [w \in 1..Len(batch_files) |-> "start"]
            /\ ret' = [w \in 1..Len(batch_files) |-> [meta |-> "None", err |-> "None"]]
            /\ UNCHANGED batch_exit
    /\ UNCHANGED <<inputs, hist, fs, dirs, pc, gvars, pvars, evars, ovars,
                   bargs, batch_files, loop_time, last_ts, limiter_lock, deadline,
                   results, errors, unrecognized, processed, recognized_count,
                   error_count, written, last_return>>

\* Time passes
Tick ==
    /\ bpc = "gather"
    /\ loop_time < MaxTime
    /\ loop_time' = loop_time + 1
    /\ UNCHANGED <<inputs, hist, fs, dirs, pc, gvars, pvars, evars, ovars,
                   bargs, batch_files, bpc, last_ts, limiter_lock, sem, wpc, deadline, ret,
                   results, errors, unrecognized, processed, recognized_count,
                   error_count, written, batch_exit, last_return>>

\* Line 225 when the semaphore is entered whatever its value
SemAcquire_unbounded(w) ==
    /\ bpc = "gather"
    /\ wpc[w] = "start"
    /\ sem' = sem - 1
    /\ wpc' = [wpc EXCEPT ![w] = "wait"]
    /\ UNCHANGED <<inputs, hist, fs, dirs, pc, gvars, pvars, evars, ovars,
                   bargs, batch_files, bpc, loop_time, last_ts, limiter_lock, deadline, ret,
                   results, errors, unrecognized, processed, recognized_count,
                   error_count, written, batch_exit, last_return>>

\* Line 225: async with sem, entered when the value is positive; the worker
\* goes on to recognize_file and limiter.wait() (lines 226, 115, 66-67)
SemAcquire(w) ==
    /\ bpc = "gather"
    /\ wpc[w] = "start"
    /\ sem > 0
    /\ sem' = sem - 1
    /\ wpc' = [wpc EXCEPT ![w] = "wait"]
    /\ UNCHANGED <<inputs, hist, fs, dirs, pc, gvars, pvars, evars, ovars,
                   bargs, batch_files, bpc, loop_time, last_ts, limiter_lock, deadline, ret,
                   results, errors, unrecognized, processed, recognized_count,
                   error_count, written, batch_exit, last_return>>

\* Lines 67-73: the lock of the limiter is taken; the worker sleeps with it
\* when the interval has not passed, else it records the instant and returns
LimiterEnter(w) ==
    /\ bpc = "gather"
    /\ wpc[w] = "wait"
    /\ limiter_lock = 0
    /\ LET wait_for == bargs.delay - (loop_time - last_ts)
       IN  IF wait_for > 0
           THEN /\ limiter_lock' = w
                /\ deadline' = loop_time + wait_for
                /\ wpc' = [wpc EXCEPT ![w] = "sleep"]
                /\ UNCHANGED <<last_ts, last_return>>
           ELSE /\ last_ts' = loop_time
                /\ last_return' = <<loop_time>>
                /\ wpc' = [wpc EXCEPT ![w] = "recognize"]
                /\ UNCHANGED <<limiter_lock, deadline>>
    /\ UNCHANGED <<inputs, hist, fs, dirs, pc, gvars, pvars, evars, ovars,
                   bargs, batch_files, bpc, loop_time, sem, ret, results, errors, unrecognized,
                   processed, recognized_count, error_count, written, batch_exit>>

\* Lines 71-73 when asyncio.sleep returns at once
LimiterWake_at_once(w) ==
    /\ bpc = "gather"
    /\ wpc[w] = "sleep"
    /\ last_ts' = loop_time
    /\ last_return' = <<loop_time>>
    /\ limiter_lock' = 0
    /\ deadline' = 0
    /\ wpc' = [wpc EXCEPT ![w] = "recognize"]
    /\ UNCHANGED <<inputs, hist, fs, dirs, pc, gvars, pvars, evars, ovars,
                   bargs, batch_files, bpc, loop_time, sem, ret, results, errors,
                   unrecognized, processed, recognized_count, error_count, written,
                   batch_exit>>

\* Lines 71-73: asyncio.sleep is over, the instant is recorded, the lock is
\* released and wait() returns
LimiterWake(w) ==
    /\ bpc = "gather"
    /\ wpc[w] = "sleep"
    /\ loop_time >= deadline
    /\ last_ts' = loop_time
    /\ last_return' = <<loop_time>>
    /\ limiter_lock' = 0
    /\ deadline' = 0
    /\ wpc' = [wpc EXCEPT ![w] = "recognize"]
    /\ UNCHANGED <<inputs, hist, fs, dirs, pc, gvars, pvars, evars, ovars,
                   bargs, batch_files, bpc, loop_time, sem, ret, results, errors,
                   unrecognized, processed, recognized_count, error_count, written,
                   batch_exit>>

\* Lines 117-162: the subprocess has run and recognize_file returns the
\* metadata (line 162), nothing for want of a match (line 162, info is
\* None), or nothing and the text of an error (lines 152-159)
Recognize(w) ==
    /\ bpc = "gather"
    /\ wpc[w] = "recognize"
    /\ \E out \in { [meta |-> "info", err |-> "None"],
                    [meta |-> "None", err |-> "None"],
                    [meta |-> "None", err |-> "ParseError"],
                    [meta |-> "None", err |-> "ChildExit 1"] } :
          ret' = [ret EXCEPT ![w] = out]
    /\ wpc' = [wpc EXCEPT ![w] = "store"]
    /\ UNCHANGED <<inputs, hist, fs, dirs, pc, gvars, pvars, evars, ovars,
                   bargs, batch_files, bpc, loop_time, last_ts, limiter_lock, sem, deadline,
                   results, errors, unrecognized, processed, recognized_count,
                   error_count, written, batch_exit, last_return>>

\* Lines 227-229
StoreResult(w) ==
    /\ bpc = "gather"
    /\ wpc[w] = "store"
    /\ results' = IF ret[w].meta # "None"
                  THEN (batch_files[w] :> ret[w].meta) @@ results
                  ELSE results
    /\ wpc' = [wpc EXCEPT ![w] = "log"]
    /\ UNCHANGED <<inputs, hist, fs, dirs, pc, gvars, pvars, evars, ovars,
                   bargs, batch_files, bpc, loop_time, last_ts, limiter_lock, sem, deadline, ret,
                   errors, unrecognized, processed, recognized_count, error_count,
                   written, batch_exit, last_return>>

\* Lines 230-232
LogError(w) ==
    /\ bpc = "gather"
    /\ wpc[w] = "log"
    /\ errors' = IF ret[w].err # "None"
                 THEN Append(errors, [file |-> batch_files[w], error |-> ret[w].err])
                 ELSE errors
    /\ wpc' = [wpc EXCEPT ![w] = "count"]
    /\ UNCHANGED <<inputs, hist, fs, dirs, pc, gvars, pvars, evars, ovars,
                   bargs, batch_files, bpc, loop_time, last_ts, limiter_lock, sem, deadline, ret,
                   results, unrecognized, processed, recognized_count, error_count,
                   written, batch_exit, last_return>>

\* Lines 234-257 without line 240: no file is listed as unrecognized
Progress_unlisted(w) ==
    /\ bpc = "gather"
    /\ wpc[w] = "count"
    /\ processed' = processed + 1
    /\ recognized_count' = IF ret[w].meta # "None" THEN recognized_count + 1
                           ELSE recognized_count
    /\ error_count' = IF ret[w].err # "None" THEN error_count + 1 ELSE error_count
    /\ written' = IF bargs.dump_every > 0 /\ processed' % bargs.dump_every = 0
                  THEN [written EXCEPT !.results = <<results>>]
                  ELSE written
    /\ sem' = sem + 1
    /\ wpc' = [wpc EXCEPT ![w] = "end"]
    /\ UNCHANGED <<inputs, hist, fs, dirs, pc, gvars, pvars, evars, ovars,
                   bargs, batch_files, bpc, loop_time, last_ts, limiter_lock, deadline, ret,
                   results, errors, unrecognized, batch_exit, last_return>>

\* Lines 234-257: the counters, the list of the unrecognized files and the
\* checkpoint; the worker then leaves the semaphore and ends
Progress(w) ==
    /\ bpc = "gather"
    /\ wpc[w] = "count"
    /\ processed' = processed + 1
    /\ recognized_count' = IF ret[w].meta # "None" THEN recognized_count + 1
                           ELSE recognized_count
    /\ unrecognized' =
          IF ret[w].meta # "None" THEN unrecognized
          ELSE Append(unrecognized,
                      <<batch_files[w], IF ret[w].err # "None" THEN ret[w].err
                                  ELSE "NO_MATCH">>)
    /\ error_count' = IF ret[w].err # "None" THEN error_count + 1 ELSE error_count
    /\ written' = IF bargs.dump_every > 0 /\ processed' % bargs.dump_every = 0
                  THEN [written EXCEPT !.results = <<results>>]
                  ELSE written
    /\ sem' = sem + 1
    /\ wpc' = [wpc EXCEPT ![w] = "end"]
    /\ UNCHANGED <<inputs, hist, fs, dirs, pc, gvars, pvars, evars, ovars,
                   bargs, batch_files, bpc, loop_time, last_ts, limiter_lock, deadline, ret,
                   results, errors, batch_exit, last_return>>

\* Lines 259-309: every worker has ended; the results, the errors and the
\* unrecognized files are written and run returns 0
Finish ==
    /\ bpc = "gather"
    /\ \A w \in 1..Len(batch_files) : wpc[w] = "end"
    /\ written' = [results |-> <<results>>, errors |-> <<errors>>,
                   unrecognized |-> <<unrecognized>>]
    /\ batch_exit' = <<0>>
    /\ bpc' = "returned"
    /\ UNCHANGED <<inputs, hist, fs, dirs, pc, gvars, pvars, evars, ovars,
                   bargs, batch_files, loop_time, last_ts, limiter_lock, sem, wpc, deadline, ret,
                   results, errors, unrecognized, processed, recognized_count,
                   error_count, last_return>>

\* run is entered: the folder holds up to MaxFiles audio files, --limit is
\* absent, 0 or 2, --delay is 0 or 2, --concurrency is 0, 2 or 3, --dump-every
\* is absent or 2, and the clock starts at 0; the organizer is not running
InitBatch ==
    /\ \E found \in 0..MaxFiles, folder_ok \in BOOLEAN, limit \in {<<>>, <<0>>, <<2>>},
          delay \in {0, 2}, concurrency \in {0, 2, 3}, dump_every \in {0, 2} :
          /\ bargs = [folder_ok |-> folder_ok, limit |-> limit, delay |-> delay,
                      concurrency |-> concurrency, dump_every |-> dump_every]
          /\ LET listed == [i \in 1..found |-> <<"track", i>>]
             IN  batch_files = IF limit = <<>> \/ limit[1] >= found THEN listed
                         ELSE SubSeq(listed, 1, limit[1])
    /\ bpc = "run"
    /\ loop_time = 0
    /\ last_ts = 0
    /\ limiter_lock = 0
    /\ sem = 0
    /\ wpc = <<>>
    /\ deadline = 0
    /\ ret = <<>>
    /\ results = <<>>
    /\ errors = <<>>
    /\ unrecognized = <<>>
    /\ processed = 0
    /\ recognized_count = 0
    /\ error_count = 0
    /\ written = [results |-> <<>>, errors |-> <<>>, unrecognized |-> <<>>]
    /\ batch_exit = <<>>
    /\ last_return = <<>>
    /\ args = Args(FALSE, FALSE, FALSE, DefaultPattern, DefaultToken)
    /\ input_kind = "ok"
    /\ mapping = <<>>
    /\ unreadable = {}
    /\ same_volume = TRUE
    /\ fs0 = <<>>
    /\ fs = fs0
    /\ dirs = {}
    /\ pc = "done"
    /\ console = <<>>
    /\ Fresh
    /\ run = 1
    /\ prev_console = <<>>
    /\ prev_report = NoReport

NextBatch ==
    \/ Begin
    \/ Tick
    \/ \E w \in 1..Len(batch_files) :
          \/ SemAcquire(w)
          \/ LimiterEnter(w)
          \/ LimiterWake(w)
          \/ Recognize(w)
          \/ StoreResult(w)
          \/ LogError(w)
          \/ Progress(w)
    \/ Finish

SpecBatch == InitBatch /\ [][NextBatch]_vars

(***************************************************************************)
(* What the properties speak of                                            *)
(***************************************************************************)

Entries == 1..Len(mapping)

\* The run has returned
Done == pc = "done"

\* Planning is over: ops is final
Planned == pc \notin {"load", "group", "plan", "item"}

SrcOf(i) == mapping[i].src

\* The source of entry i existed when the run started
Present(i) == SrcOf(i) \in DOMAIN fs0

\* The destination the metadata of entry i renders to, under the root
RenderedOf(i) ==
    build_dest_rel_base(Replacements(mapping[i].meta), Lower(splitext(SrcOf(i))[2]),
                        args.pattern, args.keep_unknowns)

\* The case-insensitive key of the placement group of entry i
KeyOf(i) == Lower(RenderedOf(i))

\* Entries i and j are sources with one content in one placement group
Twins(i, j) ==
    /\ Present(i) /\ Present(j)
    /\ KeyOf(i) = KeyOf(j)
    /\ fs0[SrcOf(i)] = fs0[SrcOf(j)]

\* Entry i is the first one, in mapping order, with its content in its group
FirstOfContent(i) == Present(i) /\ ~\E j \in 1..(i - 1) : Twins(j, i)

\* The planned operations of a source
OpsOf(src) == {k \in 1..Len(ops) : ops[k].src = src}

\* The entries the written report lists for a source, as <<group, entry>>
ReportEntriesOf(src) ==
    IF ~report.written THEN {}
    ELSE {ge \in UNION {{<<g, e>> : e \in 1..Len(report.groups[g].entries)} :
                         g \in 1..Len(report.groups)} :
             report.groups[ge[1]].entries[ge[2]].src = src}

\* The statuses the written report gives a source
ReportStatusOf(src) ==
    {report.groups[ge[1]].entries[ge[2]].status : ge \in ReportEntriesOf(src)}

(***************************************************************************)
(* C1. Any two distinct planned operations of one run have different       *)
(* destination paths, inside one placement group and across groups.        *)
(* The code resolves a name against the disk only, never against the names *)
(* it has planned already, so this fails: two sources with one basename    *)
(* and different contents in one group get one name.                       *)
(***************************************************************************)
C1_DistinctDestinations ==
    \A i, j \in 1..Len(ops) : i # j => ops[i].dest_abs # ops[j].dest_abs

(***************************************************************************)
(* C2. In an apply run no file that existed before the run, other than a   *)
(* source being moved, is truncated, replaced or deleted (a file at a path *)
(* <destination>.incoming included), and every path the executor writes to *)
(* did not exist when the plan was resolved.                               *)
(* The code removes a file it finds at <destination>.incoming.             *)
(***************************************************************************)
C2_NoPreexistingFileTouched ==
    (Done /\ args.apply) =>
        /\ \A q \in DOMAIN fs0 :
              (args.move /\ OpsOf(q) # {}) \/ (q \in DOMAIN fs /\ fs[q] = fs0[q])
        /\ \A k \in 1..Len(ops) :
              /\ ops[k].dest_abs \notin DOMAIN fs0
              /\ (ops[k].action = "COPY" => ops[k].dest_abs \o Incoming \notin DOMAIN fs0)

(***************************************************************************)
(* C3. When two or more entries with byte-identical content render to one  *)
(* (case-insensitive) destination, an apply run creates exactly one        *)
(* destination file for that content, holding it; the first entry in       *)
(* mapping order is reported planned and has the operation, every later    *)
(* one is reported skipped-identical and has none, and                     *)
(* identical_duplicates_skipped counts the skipped entries.                *)
(* Fails with C1: an operation of another group planned at the same        *)
(* destination replaces the file.                                          *)
(***************************************************************************)
C3_IdenticalStoredOnce ==
    (Done /\ args.apply) =>
        /\ \A i \in Entries :
              (FirstOfContent(i) /\ \E j \in Entries : j # i /\ Twins(i, j)) =>
                 /\ Cardinality(OpsOf(SrcOf(i))) = 1
                 /\ \A k \in OpsOf(SrcOf(i)) :
                       /\ ops[k].dest_abs \in DOMAIN fs
                       /\ fs[ops[k].dest_abs] = fs0[SrcOf(i)]
                 /\ ReportStatusOf(SrcOf(i)) = {"planned"}
                 /\ \A j \in Entries :
                       (j # i /\ Twins(i, j)) =>
                          /\ OpsOf(SrcOf(j)) = {}
                          /\ ReportStatusOf(SrcOf(j)) = {"skipped-identical"}
        /\ identical_duplicates_skipped =
              Cardinality({j \in Entries : Present(j) /\ ~FirstOfContent(j)})

(***************************************************************************)
(* The name a source is due, stated from the inputs alone                  *)
(***************************************************************************)

\* The directories on disk when the run started
InitialDirs == UNION {WithParents(dirname(q)) : q \in DOMAIN fs0}

\* A path was on disk when the run started
ExistedAtStart(p) == p \in DOMAIN fs0 \/ p \in InitialDirs

\* How many distinct contents the group of entry i holds up to entry i
RankOf(i) ==
    Cardinality({j \in 1..i : FirstOfContent(j) /\ KeyOf(j) = KeyOf(i)})

\* How many distinct contents the group of entry i holds
DistinctInGroup(i) ==
    Cardinality({j \in Entries : FirstOfContent(j) /\ KeyOf(j) = KeyOf(i)})

\* The rendered destination of entry i under the destination root
BaseOf(i) == args.dest_root \o <<"/">> \o RenderedOf(i)

\* <stem><token><sanitized source basename without extension><ext>
TokenName(i, token) ==
    LET base == splitext(BaseOf(i))
        source == splitext(basename(SrcOf(i)))[1]
    IN  base[1] \o token \o sanitize_component(source) \o base[2]

\* p with _n before its extension, p itself for n = 1
Suffixed(p, n) ==
    IF n = 1 THEN p
    ELSE splitext(p)[1] \o <<"_">> \o NatToStr(n) \o splitext(p)[2]

\* p, or p with the smallest numeric suffix _2, _3, ... that was not on disk
Resolved(p) ==
    LET n == CHOOSE m \in 1..(Cardinality(DOMAIN fs0) + Cardinality(InitialDirs) + 1) :
                /\ ~ExistedAtStart(Suffixed(p, m))
                /\ \A l \in 1..(m - 1) : ExistedAtStart(Suffixed(p, l))
    IN  Suffixed(p, n)

\* The name due to entry i, the first of its content in its group, when the
\* duplicate token is written as token
DueName(i, token) ==
    Resolved(IF RankOf(i) = 1 THEN BaseOf(i) ELSE TokenName(i, token))

\* Entry i has exactly one planned operation, and its destination is dest
PlannedAt(i, dest) ==
    /\ Cardinality(OpsOf(SrcOf(i))) = 1
    /\ \A k \in OpsOf(SrcOf(i)) : ops[k].dest_abs = dest

(***************************************************************************)
(* C4 (as stated). When sources with different content render to one       *)
(* destination, both are kept (planned, not skipped): the first keeps the  *)
(* base name, the second gets                                              *)
(* <base stem><duplicate token><sanitized source basename><ext>, with the  *)
(* smallest numeric suffix whose path does not exist when that name is on  *)
(* disk. Sources that sit at their own rendered path are left to C8.       *)
(***************************************************************************)
C4_AsStated ==
    Planned =>
        \A i \in Entries :
            (/\ FirstOfContent(i)
             /\ DistinctInGroup(i) >= 2
             /\ \A j \in Entries : KeyOf(j) = KeyOf(i) => SrcOf(j) # BaseOf(j)) =>
                IF RankOf(i) = 1
                THEN PlannedAt(i, BaseOf(i))
                ELSE PlannedAt(i, Resolved(TokenName(i, args.duplicate_token)))

(***************************************************************************)
(* C4 (amended). When sources with different content render to one         *)
(* destination, each distinct content is planned exactly once: the first   *)
(* at the base name, the later ones at                                     *)
(* <base stem><sanitized duplicate token><sanitized source basename><ext>, *)
(* and either name, when it is on disk already, with the smallest numeric  *)
(* suffix _2, _3, ... (before the extension) whose path does not exist.    *)
(***************************************************************************)
C4_DifferingContentNames ==
    Planned =>
        \A i \in Entries :
            (FirstOfContent(i) /\ DistinctInGroup(i) >= 2) =>
                PlannedAt(i, DueName(i, sanitize_component(args.duplicate_token)))

\* A second distinct content whose token name and its _2 are both on disk is
\* planned at the _3 name
C4_Witness ==
    /\ Planned
    /\ \E i \in Entries :
          /\ FirstOfContent(i)
          /\ RankOf(i) = 2
          /\ ExistedAtStart(TokenName(i, args.duplicate_token))
          /\ ExistedAtStart(Suffixed(TokenName(i, args.duplicate_token), 2))
          /\ PlannedAt(i, Suffixed(TokenName(i, args.duplicate_token), 3))

(***************************************************************************)
(* C5. A run without --apply mutates nothing except the report file (and   *)
(* the directory it is written in): the files on disk, the destination     *)
(* tree and the sources among them, are the files that were there before,  *)
(* with their contents, in copy mode and in move mode.                     *)
(***************************************************************************)
C5_DryRunMutatesNothing ==
    ~args.apply =>
        /\ fs = fs0
        /\ dirs \subseteq InitialDirs \cup WithParents(dirname(args.duplicates_json))

\* A dry run in move mode that planned two operations has returned
C5_Witness ==
    /\ Done
    /\ ~args.apply
    /\ args.move
    /\ Len(ops) >= 2
    /\ report.written

(***************************************************************************)
(* C6. After an apply run in copy mode, for every planned operation the    *)
(* destination exists and holds the content of the operation's source, and *)
(* the source still exists unchanged.                                      *)
(* Fails with C1: of two operations planned at one destination, the later  *)
(* replaces what the earlier wrote.                                        *)
(***************************************************************************)
C6_CopyPlacesEverySource ==
    (Done /\ args.apply /\ ~args.move) =>
        \A k \in 1..Len(ops) :
            /\ ops[k].dest_abs \in DOMAIN fs
            /\ fs[ops[k].dest_abs] = fs0[ops[k].src]
            /\ ops[k].src \in DOMAIN fs
            /\ fs[ops[k].src] = fs0[ops[k].src]

(***************************************************************************)
(* C7. After an apply run in move mode, for every planned operation the    *)
(* source path no longer exists and the destination holds the content the  *)
(* source had; every distinct source content that existed before the run   *)
(* still exists at some path.                                              *)
(* Fails with C1: the later of two moves to one destination replaces the   *)
(* earlier file, whose content is lost when no other copy exists.          *)
(***************************************************************************)
C7_MoveLosesNothing ==
    (Done /\ args.apply /\ args.move) =>
        /\ \A k \in 1..Len(ops) :
              /\ ops[k].src \notin DOMAIN fs
              /\ ops[k].dest_abs \in DOMAIN fs
              /\ fs[ops[k].dest_abs] = fs0[ops[k].src]
        /\ \A i \in Entries :
              Present(i) => \E q \in DOMAIN fs : fs[q] = fs0[SrcOf(i)]

(***************************************************************************)
(* C8. A source that already sits at the path its metadata renders to      *)
(* under the destination root is counted as already in place and gets no   *)
(* operation (so a second run over the tree creates no additional file).   *)
(* The code resolves the name against the disk first: the source itself    *)
(* occupies it, the name gets a numeric suffix, and the test for "in       *)
(* place" never succeeds.                                                  *)
(***************************************************************************)
C8_InPlaceIsNoOp ==
    Planned =>
        \A i \in Entries :
            (Present(i) /\ SrcOf(i) = BaseOf(i)) =>
                /\ OpsOf(SrcOf(i)) = {}
                /\ already_in_place >= 1

(***************************************************************************)
(* C9. A mapping entry whose source cannot be sized never makes the run    *)
(* fail and is left out of planning: it is never hashed (it is no valid    *)
(* item), no operation is planned for it, no report group lists it, it     *)
(* does not count toward duplicate_groups, and the names of the other      *)
(* sources are the names due to them among the sources that exist; the run *)
(* exits with status 0.                                                    *)
(***************************************************************************)
C9_MissingSourceLeftOut ==
    /\ \A k \in 1..Len(valid_items) : valid_items[k].src \in DOMAIN fs0
    /\ \A i \in Entries :
          ~Present(i) =>
              /\ OpsOf(SrcOf(i)) = {}
              /\ \A g \in 1..Len(duplicates_report) :
                    \A e \in 1..Len(duplicates_report[g].entries) :
                        duplicates_report[g].entries[e][1] # SrcOf(i)
              /\ ReportEntriesOf(SrcOf(i)) = {}
    /\ Planned =>
          /\ duplicate_groups =
                Cardinality({KeyOf(i) : i \in {j \in Entries :
                    Present(j) /\ \E k \in Entries :
                        k # j /\ Present(k) /\ KeyOf(k) = KeyOf(j)}})
          /\ \A i \in Entries :
                FirstOfContent(i) =>
                    \A k \in OpsOf(SrcOf(i)) :
                        ops[k].dest_abs =
                            DueName(i, sanitize_component(args.duplicate_token))
    /\ Done => exit_code = "0"

\* An apply run has returned whose mapping lists a missing source first in a
\* group in which two sources that exist come after it
C9_Witness ==
    /\ Done
    /\ args.apply
    /\ \E i, j, k \in Entries :
          /\ i < j /\ j < k
          /\ ~Present(i) /\ Present(j) /\ Present(k)
          /\ KeyOf(i) = KeyOf(j) /\ KeyOf(j) = KeyOf(k)
          /\ OpsOf(SrcOf(j)) # {}

\* The missing sources the console lists
ConsoleMissing ==
    UNION {{console[k].sources[m] : m \in 1..Len(console[k].sources)} :
              k \in {l \in 1..Len(console) :
                        console[l].line = "Missing sources (skipped)"}}

\* The number of missing sources the printed summary gives
SummaryMissing ==
    {console[k].missing_source_files :
        k \in {l \in 1..Len(console) : console[l].line = "Summary"}}

(***************************************************************************)
(* C10 (as stated). Every missing source of a run is listed in the         *)
(* structured report that the run writes to disk.                          *)
(***************************************************************************)
C10_AsStated ==
    Done => \A i \in Entries : ~Present(i) => ReportEntriesOf(SrcOf(i)) # {}

(***************************************************************************)
(* C10 (amended). Every missing source of a run is listed in the console   *)
(* output of the run (the first 50 of them, the rest as a count) and       *)
(* counted in its printed summary; the structured report that the run      *)
(* writes to disk does not list missing sources.                           *)
(***************************************************************************)
C10_MissingOnConsole ==
    Done =>
        /\ report.written
        /\ \A i \in Entries :
              ~Present(i) =>
                  /\ (Cardinality({j \in 1..i : ~Present(j)}) <= MissingListed
                        => SrcOf(i) \in ConsoleMissing)
                  /\ ReportEntriesOf(SrcOf(i)) = {}
        /\ SummaryMissing = {Cardinality({i \in Entries : ~Present(i)})}

\* A run has returned whose mapping lists two missing sources and a source
\* that exists
C10_Witness ==
    /\ Done
    /\ Cardinality({i \in Entries : ~Present(i)}) >= 2
    /\ \E i \in Entries : Present(i)
    /\ report.written

\* The report without its generated_at
Undated(r) == [k \in DOMAIN r \ {"generated_at"} |-> r[k]]

\* This run is a dry run that followed a dry run, and both have written
\* their reports
TwoDryRuns == Done /\ run > 1 /\ ~args.apply /\ prev_report.written /\ report.written

ShownOps(cons, line) ==
    LET shown == SelectSeq(cons, LAMBDA e : e.line = line)
    IN  [k \in 1..Len(shown) |-> <<shown[k].action, shown[k].src, shown[k].dest_abs>>]

\* The planned operations, each as <<action, source, destination>>
PlannedOps == [k \in 1..Len(ops) |-> <<ops[k].action, ops[k].src, ops[k].dest_abs>>]

(***************************************************************************)
(* C12. The operations an apply run performs are exactly the operations a  *)
(* dry run over the same mapping, options and filesystem state reports:    *)
(* nothing on disk changes while the plan is made, the plan of a run that  *)
(* follows a dry run, with or without --apply, is the plan the dry run     *)
(* printed, and the operations the apply run has performed when it returns *)
(* are those, in that order.                                               *)
(***************************************************************************)
C12_ApplyPerformsThePlan ==
    /\ pc \in {"group", "plan", "item"} => fs = fs0
    /\ (run > 1 /\ Planned) => PlannedOps = ShownOps(prev_console, "PLAN")
    /\ (run > 1 /\ Done /\ args.apply) =>
          /\ ShownOps(console, "DONE") = ShownOps(prev_console, "PLAN")
          /\ copies_performed + moves_performed = Len(ShownOps(prev_console, "PLAN"))

\* An apply run in move mode that followed a dry run has returned, after two
\* operations or more, of a mapping with an identical duplicate
C12_Witness ==
    /\ run > 1
    /\ Done
    /\ args.apply
    /\ args.move
    /\ Len(ShownOps(prev_console, "PLAN")) >= 2
    /\ identical_duplicates_skipped >= 1

(***************************************************************************)
(* C13. Whenever an apply run is interrupted, in copy mode or in move      *)
(* mode, every final destination path is either absent or holds the        *)
(* complete content of its source: no state of the run shows a partially   *)
(* written file at the destination of an operation.                        *)
(* A move to another filesystem is a copy onto the destination itself.     *)
(***************************************************************************)
C13_NoPartialDestination ==
    \A k \in 1..Len(ops) :
        \/ ops[k].dest_abs \notin DOMAIN fs
        \/ ~IsPartial(fs[ops[k].dest_abs])

(***************************************************************************)
(* C14. When the destination of a planned operation exists at the time the *)
(* operation is executed (created after planning, here by an earlier       *)
(* operation of the same run), that operation fails: the existing file is  *)
(* left intact and the operation is not counted as performed; the          *)
(* remaining operations are still performed.                               *)
(* shutil.move and os.replace replace the file, and no error is raised.    *)
(***************************************************************************)
C14_ExistingDestinationKept ==
    [][(/\ pc \in {"apply", "copying", "replace"}
        /\ oi <= Len(ops)
        /\ ops[oi].dest_abs \in DOMAIN fs) =>
           /\ ops[oi].dest_abs \in DOMAIN fs'
           /\ fs'[ops[oi].dest_abs] = fs[ops[oi].dest_abs]
           /\ copies_performed' = copies_performed
           /\ moves_performed' = moves_performed]_vars

\* The run has ended, by returning or by an exception
Ended == pc \in {"done", "raised", "exited"}

(***************************************************************************)
(* C15. A failure of one source's copy or move during apply is recovered   *)
(* locally: when the run has ended, every planned operation was attempted  *)
(* and the structured report was written.                                  *)
(* Nothing in main catches the exception of a failed copy: the run ends.   *)
(***************************************************************************)
C15_FailureRecoveredLocally ==
    (Ended /\ args.apply /\ input_kind = "ok") =>
        /\ oi > Len(ops)
        /\ report.written

\* Entry i is a source that can be sized but not opened
Unhashable(i) == Present(i) /\ SrcOf(i) \in unreadable

\* The entries duplicates_report lists as skipped-identical
SkippedSources ==
    UNION {{duplicates_report[g].entries[e][1] :
               e \in {f \in 1..Len(duplicates_report[g].entries) :
                         Len(duplicates_report[g].entries[f]) = 3}} :
           g \in 1..Len(duplicates_report)}

C20_BadInputIsFatal ==
    input_kind # "ok" =>
        /\ pc \in {"load", "exited"}
        /\ pc = "exited" => exit_code = "1"
        /\ total_entries = 0 /\ idx = 1 /\ groups = <<>>
        /\ ops = <<>> /\ oi = 1
        /\ fs = fs0 /\ dirs = InitialDirs
        /\ ~report.written

\* A run over a mapping file that cannot be opened has ended, with sources on
\* disk
C20_Witness ==
    /\ pc = "exited"
    /\ input_kind = "unreadable"
    /\ exit_code = "1"
    /\ Cardinality(DOMAIN fs0) >= 2

(***************************************************************************)
(* Rendering                                                               *)
(***************************************************************************)

\* The items main has grouped, each with the record of its mapping entry
GroupedItems ==
    UNION {{[it |-> groups[g].items[k],
             meta |-> mapping[CHOOSE i \in Entries :
                                 SrcOf(i) = groups[g].items[k].src].meta] :
               k \in 1..Len(groups[g].items)} : g \in 1..Len(groups)}

\* The components of a rendered path, without the extension of its leaf
ComponentsOf(it) ==
    Split(SubSeq(it.dest_rel_base, 1, Len(it.dest_rel_base) - Len(it.ext)), "/")

\* A field is unknown when its flag says so; its text decides only when the
\* flag is absent
UnknownByFlag(text, flag) ==
    IF flag = "True" THEN TRUE
    ELSE IF flag = "False" THEN FALSE
    ELSE is_unknown_text(text)

\* What a field contributes to the path of a record: its sanitized text, or
\* the marker of an unknown field
FieldByFlag(text, flag, marker) ==
    IF UnknownByFlag(text, flag) THEN sanitize_component(Unknown \o <<" ">> \o marker)
    ELSE sanitize_component(text)

(***************************************************************************)
(* C17. When an entry carries an unknown flag, the flag alone decides      *)
(* whether the field is treated as unknown: with a false flag the text is  *)
(* kept, and is a component of the rendered path, even if it is "Unknown"  *)
(* or starts with "Unknown "; with a true flag the field is unknown        *)
(* whatever its text; the text decides only when the flag is absent.       *)
(* Lines 314-319 test the flag or the text, so a false flag decides        *)
(* nothing.                                                                *)
(***************************************************************************)
C17_FlagDecides ==
    \A e \in GroupedItems :
        /\ e.meta.author # None =>
              e.it.author_s = FieldByFlag(e.meta.author, e.meta.author_unknown,
                                          <<"A", "r", "t", "i", "s", "t">>)
        /\ e.meta.album # None =>
              e.it.album_s = FieldByFlag(e.meta.album, e.meta.album_unknown,
                                         <<"A", "l", "b", "u", "m">>)
        /\ e.meta.song # None =>
              e.it.song_s = FieldByFlag(e.meta.song, e.meta.song_unknown,
                                        <<"S", "o", "n", "g">>)
        /\ (e.meta.author_unknown = "False" /\ e.meta.author # None) =>
              \E c \in 1..Len(ComponentsOf(e.it)) :
                  ComponentsOf(e.it)[c] \in {sanitize_component(e.meta.author),
                                             TrimDangling(sanitize_component(e.meta.author))}

\* The record names an artist and a song, and its album is unknown by its
\* flag, or by its text when it has no flag
AlbumUnknownOnly(meta) ==
    /\ meta.author = <<"A">> /\ meta.author_unknown # "True"
    /\ meta.song = <<"S">> /\ meta.song_unknown # "True"
    /\ meta.album_unknown = "True" \/ is_unknown_text(meta.album)

\* artist/song for the drop of unknowns, artist/Unknown Album/song for keep
AlbumUnknownPath(it) ==
    IF args.keep_unknowns
    THEN <<"A", "/">> \o Unknown \o <<" ", "A", "l", "b", "u", "m", "/", "S">> \o it.ext
    ELSE <<"A", "/", "S">> \o it.ext

\* No component of the path of the item is an unknown marker, or the path is
\* the fallback
NoMarker(it) ==
    \/ ComponentsOf(it) = <<Unknown>>
    \/ \A c \in 1..Len(ComponentsOf(it)) : ~is_unknown_text(ComponentsOf(it)[c])

(***************************************************************************)
(* C18. The pattern artist/album/song renders a record whose album is      *)
(* unknown to artist/song when unknowns are dropped and to                 *)
(* artist/Unknown Album/song when they are kept; with unknowns dropped no  *)
(* component of a rendered path is an unknown marker, unless the path is   *)
(* the fallback "Unknown".                                                 *)
(* Line 170 looks for the markers before line 175 trims the punctuation    *)
(* at the ends of a component: "-Unknown" passes and is trimmed to         *)
(* "Unknown".                                                              *)
(***************************************************************************)
C18_UnknownsDropped ==
    \A e \in GroupedItems :
        /\ AlbumUnknownOnly(e.meta) => e.it.dest_rel_base = AlbumUnknownPath(e.it)
        /\ ~args.keep_unknowns => NoMarker(e.it)

\* A component as sanitize_component promises it: not empty, without
\* separators, reserved and control characters, no dot or space at its ends
Sanitized(t) ==
    LET ForbiddenChars == ReservedChars \cup {"/", "\\"} \cup ControlChars \cup {Delete}
    IN  /\ t # <<>>
        /\ \A k \in 1..Len(t) : t[k] \notin ForbiddenChars
        /\ t[1] \notin {".", " "}
        /\ t[Len(t)] \notin {".", " "}

(***************************************************************************)
(* C19. For every input string, sanitize_component returns a non-empty     *)
(* string that contains none of the characters / \ : * ? " < > | and no    *)
(* control character, and that neither begins nor ends with a dot or a     *)
(* space.                                                                  *)
(* Line 64 replaces the characters below code 32 only: DEL (code 127), a   *)
(* control character, is kept.                                             *)
(***************************************************************************)
C19_SanitizedComponents ==
    \A e \in GroupedItems :
        /\ Sanitized(e.it.author_s)
        /\ Sanitized(e.it.album_s)
        /\ Sanitized(e.it.song_s)

(***************************************************************************)
(* The report and the order of planning                                    *)
(***************************************************************************)

\* The entries whose existing source renders to a key, in mapping order
EntriesOfKey(key) ==
    SelectSeq([i \in Entries |-> i],
              LAMBDA i : ~Skipped(mapping[i]) /\ Present(i) /\ KeyOf(i) = key)

\* The keys two or more existing sources render to
SharedKeys ==
    {key \in {KeyOf(i) : i \in {j \in Entries : ~Skipped(mapping[j])}} :
        Len(EntriesOfKey(key)) >= 2}

(***************************************************************************)
(* C21. The report contains one group for every case-insensitive           *)
(* destination key shared by two or more existing sources; the group lists *)
(* each of those sources exactly once, in mapping order, as "planned" with *)
(* its resolved destination or as "skipped-identical"; and every planned   *)
(* destination of the report is the destination of the operation planned   *)
(* for that source.                                                        *)
(***************************************************************************)
C21_ReportListsSharedKeys ==
    report.written =>
        \A key \in SharedKeys :
            /\ Cardinality({g \in 1..Len(report.groups) :
                               report.groups[g].dest_key = key}) = 1
            /\ \A g \in 1..Len(report.groups) :
                  report.groups[g].dest_key = key =>
                      LET entries == report.groups[g].entries
                      IN  /\ [k \in 1..Len(entries) |-> entries[k].src]
                                = [k \in 1..Len(EntriesOfKey(key)) |->
                                      SrcOf(EntriesOfKey(key)[k])]
                          /\ \A k \in 1..Len(entries) :
                                \/ /\ entries[k].status = "skipped-identical"
                                   /\ OpsOf(entries[k].src) = {}
                                \/ /\ entries[k].status = "planned"
                                   /\ Cardinality(OpsOf(entries[k].src)) = 1
                                   /\ \A o \in OpsOf(entries[k].src) :
                                         /\ ops[o].dest_abs = entries[k].planned_dest_abs
                                         /\ ops[o].dest_rel = entries[k].planned_dest_rel

\* A report with a group of three sources, two planned at different
\* destinations and one skipped as identical
C21_Witness ==
    /\ report.written
    /\ \E g \in 1..Len(report.groups) :
          LET entries == report.groups[g].entries
          IN  /\ Len(entries) = 3
              /\ report.groups[g].dest_key \in SharedKeys
              /\ \E i, j, k \in 1..3 :
                    /\ entries[i].status = "planned"
                    /\ entries[j].status = "planned"
                    /\ entries[k].status = "skipped-identical"
                    /\ entries[i].planned_dest_abs # entries[j].planned_dest_abs

\* What the loop of line 414 gives the sources of the entries es, which are
\* those of one group in their order, and nothing but they, the options and
\* the disk decide it: the destination of each, or None for one skipped as
\* identical
RECURSIVE NamesInOrder(_)
NamesInOrder(es) ==
    IF es = <<>> THEN <<>>
    ELSE LET before == SubSeq(es, 1, Len(es) - 1)
             names == NamesInOrder(before)
             i == es[Len(es)]
             seen == {compute_file_hash(SrcOf(before[k])) : k \in 1..Len(before)}
             count == Cardinality({k \in 1..Len(before) : names[k] # None})
         IN  Append(names,
                    IF IsIdentical(compute_file_hash(SrcOf(i)), seen) THEN None
                    ELSE compute_unique_destination(
                             Candidate(Item(SrcOf(i), mapping[i].meta), count + 1), 1)[1])

(***************************************************************************)
(* C24. Within a placement group sources are processed in mapping order:   *)
(* the source that receives the base rendered path is the first existing   *)
(* source of the group in mapping order; the source kept for each distinct *)
(* content is the first one in mapping order with that content; and the    *)
(* names assigned inside the group are those its own entries give, in      *)
(* their order, wherever the entries of other groups stand in the mapping. *)
(***************************************************************************)
C24_MappingOrderInGroup ==
    (Planned /\ fs = fs0) =>
        \A key \in {KeyOf(i) : i \in Entries} :
            LET es == EntriesOfKey(key)
                names == NamesInOrder(es)
            IN  \A k \in 1..Len(es) :
                    LET mine == OpsOf(SrcOf(es[k]))
                    IN  /\ mine # {} <=> FirstOfContent(es[k])
                        /\ mine = {} <=> names[k] = None
                        /\ \A o \in mine :
                              /\ ops[o].dest_abs = names[k]
                              /\ ops[o].dest_abs = join(args.dest_root, RenderedOf(es[k]))
                                    => k = 1

\* Two sources of one group with different contents stand around an entry of
\* another group: the first has the base path, the last another name
C24_Witness ==
    /\ Planned /\ fs = fs0
    /\ Len(mapping) = 3
    /\ EntriesOfKey(KeyOf(1)) = <<1, 3>>
    /\ EntriesOfKey(KeyOf(2)) = <<2>>
    /\ \E o1 \in OpsOf(SrcOf(1)), o3 \in OpsOf(SrcOf(3)) :
          /\ ops[o1].dest_abs = join(args.dest_root, RenderedOf(1))
          /\ ops[o3].dest_abs # ops[o1].dest_abs

(***************************************************************************)
(* C25 (as stated). For every configured duplicate token (an empty one,    *)
(* one of spaces or dots and one with reserved characters included), the   *)
(* name given to the 2nd and later distinct contents of a group is exactly *)
(* <base stem><duplicate token><sanitized source basename><ext>, with the  *)
(* token inserted as the literal that was configured.                      *)
(***************************************************************************)
C25_AsStated ==
    Planned =>
        \A i \in Entries :
            (FirstOfContent(i) /\ RankOf(i) >= 2) =>
                PlannedAt(i, TokenName(i, args.duplicate_token))

(***************************************************************************)
(* C25 (amended). For every configured duplicate token, the name given to  *)
(* the 2nd and later distinct contents of a group is                       *)
(* <base stem><token as sanitize_component returns it><sanitized source    *)
(* basename><ext>, and when that name is on disk already, the name with    *)
(* the smallest numeric suffix _2, _3, ... (before the extension) whose    *)
(* path does not exist.                                                    *)
(***************************************************************************)
C25_SanitizedTokenInserted ==
    Planned =>
        \A i \in Entries :
            (FirstOfContent(i) /\ RankOf(i) >= 2) =>
                PlannedAt(i, Resolved(TokenName(i, sanitize_component(args.duplicate_token))))

\* A second distinct content was named with a token of a space, a reserved
\* character and a dot, which is inserted as "-"
C25_Witness ==
    /\ Planned
    /\ args.duplicate_token = <<" ", ":", ".">>
    /\ \E i \in Entries :
          /\ FirstOfContent(i)
          /\ RankOf(i) = 2
          /\ PlannedAt(i, TokenName(i, <<"-">>))

(***************************************************************************)
(* C26. Rendering substitutes each placeholder of the pattern with the     *)
(* value of its own field only: text that a value brings in is never       *)
(* expanded again as a placeholder (an artist "%S" stays "%S"), and a "%x"  *)
(* that is not in the substitution table stays literal text.               *)
(* Lines 161-163 replace one placeholder after the other over the whole    *)
(* text, the values substituted so far included.                           *)
(***************************************************************************)
C26_SubstitutedBySegment ==
    \A e \in GroupedItems :
        LET replacements == BlankUnknowns(Replacements(e.meta), args.keep_unknowns)
            \* the pattern read once, left to right: a placeholder of the table
            \* gives its value, any other character itself
            RECURSIVE BySegment(_)
            BySegment(pattern) ==
                IF pattern = <<>> THEN <<>>
                ELSE IF /\ Len(pattern) >= 2
                        /\ pattern[1] = "%"
                        /\ pattern[2] \in DOMAIN replacements
                     THEN replacements[pattern[2]]
                              \o BySegment(SubSeq(pattern, 3, Len(pattern)))
                     ELSE <<pattern[1]>> \o BySegment(Tail(pattern))
        IN  Substitute(args.pattern, replacements, 1) = BySegment(args.pattern)

(***************************************************************************)
(* C27. For every record, pattern and keep/drop setting, rendering gives a *)
(* path with at least one component and no empty component; when every     *)
(* component of the pattern is removed or empty, the path is made of the   *)
(* non-empty ones of author, album and song, in that order, and when there *)
(* is none, of the single component "Unknown".                             *)
(***************************************************************************)
C27_RenderingNeverFails ==
    \A e \in GroupedItems :
        LET replacements == BlankUnknowns(Replacements(e.meta), args.keep_unknowns)
            parts == SelectSeq(Split(Substitute(args.pattern, replacements, 1), "/"),
                               LAMBDA q : q \notin {<<>>, <<".">>, <<".", ".">>})
            \* what a field has to give: nothing when it is unknown and unknowns
            \* are dropped, else its sanitized text, without the punctuation at
            \* its ends when unknowns are dropped
            Given(field_s) ==
                IF args.keep_unknowns THEN field_s
                ELSE IF is_unknown_text(field_s) THEN <<>>
                ELSE TrimDangling(field_s)
            given == SelectSeq(<<Given(e.it.author_s), Given(e.it.album_s),
                                 Given(e.it.song_s)>>,
                               LAMBDA v : v # <<>>)
        IN  /\ ComponentsOf(e.it) # <<>>
            /\ \A c \in 1..Len(ComponentsOf(e.it)) : ComponentsOf(e.it)[c] # <<>>
            /\ SafeParts(parts, args.keep_unknowns) = <<>> =>
                  ComponentsOf(e.it) = IF given # <<>> THEN given ELSE <<Unknown>>

\* The pattern is the album alone, which is unknown and dropped: the path is
\* artist/song
C27_Witness ==
    /\ pc = "done"
    /\ args.pattern = <<"%", "L">>
    /\ ~args.keep_unknowns
    /\ \E e \in GroupedItems :
          /\ e.meta.album = None
          /\ ComponentsOf(e.it) = <<e.it.author_s, e.it.song_s>>

(***************************************************************************)
(* C29. Every planned destination lies inside the destination root: for    *)
(* any metadata and any pattern (with ".", "..", empty or absolute-looking *)
(* segments, and metadata with path separators), no component of the       *)
(* rendered relative path is ".", ".." or empty, and the relative path     *)
(* never starts with a separator.                                          *)
(***************************************************************************)
C29_DestinationInsideRoot ==
    /\ \A e \in GroupedItems :
          LET rel == Split(e.it.dest_rel_base, "/")
          IN  /\ e.it.dest_rel_base # <<>>
              /\ e.it.dest_rel_base[1] # "/"
              /\ \A c \in 1..Len(rel) : rel[c] \notin {<<>>, <<".">>, <<".", ".">>}
    /\ \A o \in 1..Len(ops) :
          LET under == <<"/">> \o ops[o].dest_rel
              rel == Split(ops[o].dest_rel, "/")
          IN  /\ ops[o].dest_abs = args.dest_root \o under
              /\ \A c \in 1..Len(rel) : rel[c] \notin {<<>>, <<".">>, <<".", ".">>}

\* An operation was planned for a record of separators and dots under a
\* pattern that starts with " ..", unknowns kept
C29_Witness ==
    /\ Planned
    /\ Len(ops) = 1
    /\ args.pattern = <<" ", ".", ".", "/", "%", "S">>
    /\ args.keep_unknowns
    /\ \E e \in GroupedItems :
          /\ e.meta.album = <<".", ".">>
          /\ Len(ComponentsOf(e.it)) = 2

(***************************************************************************)
(* C30. At the end of planning the counters agree, for every input: the    *)
(* number of existing sources is the number of groups with an existing     *)
(* source plus distinct_duplicates_kept plus identical_duplicates_skipped; *)
(* planned copies plus planned moves plus already in place is the number   *)
(* of existing sources minus identical_duplicates_skipped; and planned     *)
(* copies and planned moves are never both non-zero.                       *)
(***************************************************************************)
C30_CountersAgree ==
    Planned =>
        LET existing == {i \in Entries : ~Skipped(mapping[i]) /\ Present(i)}
            keys == {KeyOf(i) : i \in existing}
        IN  /\ Cardinality(existing)
                  = Cardinality(keys) + total_duplicates_kept
                        + identical_duplicates_skipped
            /\ planned_copies + planned_moves + already_in_place
                  = Cardinality(existing) - identical_duplicates_skipped
            /\ planned_copies = 0 \/ planned_moves = 0

\* Three sources of one group, of which one is a distinct duplicate and one
\* is skipped as identical, in move mode
C30_Witness ==
    /\ Planned
    /\ total_duplicates_kept = 1
    /\ identical_duplicates_skipped = 1
    /\ planned_moves = 2

(***************************************************************************)
(* batch_recognize: the limiter, the semaphore and the lists of a run      *)
(***************************************************************************)

\* C22: whenever RateLimiter.wait() returns to a worker after it returned
\* before, to whatever worker and under whatever interleaving, the two
\* instants are at least min_interval apart.
C22_ReturnsSpacedByDelay ==
    [][ (/\ last_return # <<>>
         /\ \E w \in DOMAIN wpc :
               wpc[w] \in {"wait", "sleep"} /\ wpc'[w] = "recognize")
        => last_return'[1] - last_return[1] >= bargs.delay ]_vars

\* C22 happens: with a delay, the three recognitions run at once, each
\* started after wait() slept, the last one three delays after the start.
C22_Witness ==
    /\ bargs.delay > 0
    /\ Len(batch_files) = MaxFiles
    /\ \A w \in DOMAIN wpc : wpc[w] = "recognize"
    /\ last_return # <<>>
    /\ last_return[1] >= Len(batch_files) * bargs.delay

\* C23: when a run over selected files has returned, every selected file was
\* processed once and is either a key of results or listed once as
\* unrecognized, never both, so the two sizes add up to the number of files;
\* every file with an entry in errors is listed as unrecognized; and the
\* results file written last holds every file recognize_file gave metadata of.
C23_EveryFileAccountedFor ==
    (bpc = "returned" /\ bargs.folder_ok /\ batch_files # <<>>) =>
        LET Listed(f) == { k \in DOMAIN unrecognized : unrecognized[k][1] = f }
        IN  /\ processed = Len(batch_files)
            /\ \A w \in DOMAIN batch_files :
                  /\ wpc[w] = "end"
                  /\ IF batch_files[w] \in DOMAIN results
                     THEN Listed(batch_files[w]) = {}
                     ELSE Cardinality(Listed(batch_files[w])) = 1
                  /\ ret[w].meta # "None" =>
                        /\ written.results # <<>>
                        /\ batch_files[w] \in DOMAIN written.results[1]
                        /\ written.results[1][batch_files[w]] = ret[w].meta
            /\ Cardinality(DOMAIN results) + Len(unrecognized) = Len(batch_files)
            /\ DOMAIN results \subseteq { batch_files[w] : w \in DOMAIN batch_files }
            /\ \A k \in DOMAIN errors : Listed(errors[k].file) # {}

\* C23 happens: a run over three files has returned, two at a time; one
\* file was recognized, one was not matched and one failed.
C23_Witness ==
    /\ bpc = "returned"
    /\ Len(batch_files) = MaxFiles
    /\ bargs.concurrency > 1
    /\ Cardinality(DOMAIN results) = 1
    /\ Len(errors) = 1
    /\ Len(unrecognized) > Len(errors)
    /\ written.results = <<results>>

\* C28: at every instant the workers that hold the semaphore number at most
\* max(1, concurrency).
C28_RecognitionsBounded ==
    LET InProgress == { w \in DOMAIN wpc : wpc[w] \notin {"start", "end"} }
    IN  Cardinality(InProgress) <=
            (IF bargs.concurrency > 1 THEN bargs.concurrency ELSE 1)

\* C28 happens: with more files than the concurrency, as many recognitions as
\* allowed are in progress and a worker waits for the semaphore; and with a
\* concurrency of 0 one recognition is in progress.
C28_Witness ==
    /\ bpc = "gather"
    /\ bargs.concurrency > 1
    /\ Cardinality({ w \in DOMAIN wpc : wpc[w] \notin {"start", "end"} })
          = bargs.concurrency
    /\ \E w \in DOMAIN wpc : wpc[w] = "start"
    /\ sem = 0

====
